---------------------------- MODULE Spec2Model ----------------------------
(***************************************************************************)
(* A state-machine model of the hierarchical canvas editor                 *)
(* (jee-eun-k/frontend-canvas-editor).                                     *)
(*                                                                         *)
(* The repository holds several implementations of the same editor.  Each  *)
(* one is modelled over its own variables and explored by its own          *)
(* specification:                                                          *)
(*   - the core managers (HierarchyManager, StateManager, EdgeDetector,    *)
(*     SelectionManager, TransformManager, ConstraintCalculator):          *)
(*     variables elements .. cache and now, specifications Spec,           *)
(*     SpecTransform, SpecHierarchy (creation, deletion, duplication)      *)
(*     and SpecDuplicateMove;                                              *)
(*   - the RenderManager, the history of the StateManager and the          *)
(*     EventBus of the core: the core variables and probe, specifications  *)
(*     SpecRender, SpecHistory and SpecBus;                                *)
(*   - the legacy TransformManager (unnamed/part_006): variable            *)
(*     legacyElements, specifications SpecLegacy and SpecLegacyCreate;     *)
(*   - the Fabric based component CanvasEditor.tsx: variables objects and  *)
(*     gestures, specifications SpecEditor and SpecBake (objects and       *)
(*     probe);                                                             *)
(*   - the component of unnamed/part_002 with its own hit test and drag    *)
(*     selection: variables objects and probe, specification SpecMonolith; *)
(*   - the hooks useCanvasObjectManipulation (unnamed/part_013) and        *)
(*     useCanvasEvents / useCanvasSelection: variables objects and probe,  *)
(*     specifications SpecManipulation and SpecGesture;                    *)
(*   - the pure edge tests of the core and of the hooks: variable probe,   *)
(*     specification SpecEdge;                                             *)
(*   - the rules that pick the most parent object of a list: variables     *)
(*     objects and probe, specification SpecRules.                         *)
(*                                                                         *)
(* Coordinates are integers.  The code computes in IEEE doubles; the only  *)
(* division (the proportional reposition of children after a resize) is    *)
(* explored on inputs whose quotient is integral.                          *)
(*                                                                         *)
(* Left out, because no property below reads them: style, the timestamps   *)
(* of metadata, and the payload of the events sent through the EventBus    *)
(* (the history holds the name of the event a move or a resize emits, and  *)
(* the order of the events of a deletion).  dirtyElements is kept by       *)
(* SpecRender and SpecHistory only.                                        *)
(* createElement's props carry a position and a size, and possibly a depth *)
(* or a selected flag; duplicateElement passes a whole element as props.   *)
(* The childIds array of an element is an object that several elements can *)
(* hold: childIdsRef is the set of the elements that hold the same array.  *)
(***************************************************************************)
EXTENDS Integers, Sequences, FiniteSets, TLC

VARIABLES
    elements,           \* AppState.elements: Map id -> HierarchicalElement
    elementOrder,       \* insertion order of the Map (= AppState.elementOrder)
    selectedElementId,  \* AppState.selectedElementId
    hoveredElementId,   \* AppState.hoveredElementId
    cache,              \* EdgeDetector.cache: key -> boolean
    legacyElements,     \* legacy HierarchyManager.elements
    objects,            \* CanvasEditor / hooks: the canvas objects
    probe,              \* the state of the component a specification explores
    gestures,           \* CanvasEditor: the number of completed gestures
    now,                \* Date.now() at the last duplication
    last                \* history: the last operation, its input and result

vars == <<elements, elementOrder, selectedElementId, hoveredElementId, cache,
          legacyElements, objects, probe, gestures, now, last>>

coreVars == <<elements, elementOrder, selectedElementId, hoveredElementId, cache>>

NULL == "null"

Range(s) == {s[i] : i \in DOMAIN s}

Max(a, b) == IF a >= b THEN a ELSE b

Min(a, b) == IF a <= b THEN a ELSE b

\* The record the history variable holds: the operation, its target, its two
\* numeric arguments (ax, ay), the two numbers it computed (rx, ry) and the
\* id it returned.
Op(op, id, ax, ay, rx, ry, ret) ==
    [op |-> op, id |-> id, ax |-> ax, ay |-> ay, rx |-> rx, ry |-> ry, ret |-> ret]

NoOp == Op("init", NULL, 0, 0, 0, 0, NULL)

(***************************************************************************)
(* Bounds of the exploration.                                              *)
(***************************************************************************)
\* metadata.version grows with every move and resize; an element is
\* transformed only while its version is below MaxVersion.
MaxVersion == 3

\* The Fabric based component is explored for MaxGestures gestures.
MaxGestures == 2

(***************************************************************************)
(* HierarchyManager (core).  A store value is a function from the ids      *)
(* present to element records.                                             *)
(***************************************************************************)
getParent(els, id) ==
    IF id \notin DOMAIN els \/ els[id].parentId = NULL THEN NULL
    ELSE IF els[id].parentId \in DOMAIN els THEN els[id].parentId ELSE NULL

getChildren(els, id) ==
    IF id \notin DOMAIN els THEN <<>>
    ELSE SelectSeq(els[id].childIds, LAMBDA c : c \in DOMAIN els)

\* The mutation of getDescendants that stops at the direct children.
getDescendantsShallow(els, id) == getChildren(els, id)

RECURSIVE getDescendantsOfAll(_, _)
RECURSIVE getDescendants(_, _)
getDescendants(els, id) == getDescendantsOfAll(els, getChildren(els, id))

getDescendantsOfAll(els, children) ==
    IF children = <<>> THEN <<>>
    ELSE <<Head(children)>> \o getDescendants(els, Head(children))
         \o getDescendantsOfAll(els, Tail(children))

\* updateRootElementIds: the parentless elements in Map order.
rootElementIds(els, order) ==
    SelectSeq(order, LAMBDA i : i \in DOMAIN els /\ els[i].parentId = NULL)

RECURSIVE maxZIndex(_, _)
maxZIndex(els, siblings) ==
    IF siblings = <<>> THEN 0
    ELSE LET rest == maxZIndex(els, Tail(siblings))
         IN  IF Head(siblings) \in DOMAIN els
             THEN Max(rest, els[Head(siblings)].zIndex) ELSE rest

\* parent.childIds.push(id): the array is changed in place, so every element
\* that holds the same array sees the new id.  childIdsRef of an element is
\* the set of the elements that hold the array it holds.
pushChildId(els, parentId, id) ==
    [i \in DOMAIN els |->
        IF i \in els[parentId].childIdsRef
        THEN [els[i] EXCEPT !.childIds = Append(@, id)] ELSE els[i]]

\* createElement on a store (els, order).  props is spread last over the
\* computed fields, so every field it carries replaces the computed one; a
\* childIds array it carries is held by the new element as well.
\* The caller guarantees the parent exists when parentId is not null.
createElementIn(S, id, parentId, props) ==
    LET els == S.elements
        depth == IF parentId = NULL THEN 0 ELSE els[parentId].depth + 1
        siblings == IF parentId = NULL THEN rootElementIds(els, S.elementOrder)
                    ELSE els[parentId].childIds
        computed == [parentId |-> parentId, childIds |-> <<>>,
                     childIdsRef |-> {}, depth |-> depth,
                     zIndex |-> maxZIndex(els, siblings) + 1,
                     x |-> 0, y |-> 0, w |-> 100, h |-> 100,
                     selected |-> FALSE, hovered |-> FALSE,
                     stayWithinParent |-> TRUE, maintainAspectRatio |-> FALSE,
                     version |-> 1]
        spread == [f \in DOMAIN computed |->
                      IF f \in DOMAIN props THEN props[f] ELSE computed[f]]
        holders == spread.childIdsRef \cup {id}
        added == [i \in DOMAIN els \cup {id} |->
                     IF i = id THEN [spread EXCEPT !.childIdsRef = holders]
                     ELSE IF i \in holders
                          THEN [els[i] EXCEPT !.childIdsRef = holders]
                          ELSE els[i]]
    IN  [elements |-> IF parentId = NULL THEN added
                      ELSE pushChildId(added, parentId, id),
         elementOrder |-> Append(S.elementOrder, id)]

Rect(x, y, w, h) == [x |-> x, y |-> y, w |-> w, h |-> h]

EmptyStore == [elements |-> <<>>, elementOrder |-> <<>>]

\* createInitialElements of the host component.
ThreeRectangles ==
    LET s1 == createElementIn(EmptyStore, "blue-parent", NULL, Rect(100, 100, 300, 200))
        s2 == createElementIn(s1, "orange-child", "blue-parent", Rect(120, 120, 150, 100))
    IN  createElementIn(s2, "purple-grandchild", "orange-child", Rect(140, 140, 80, 60))

\* A 400x400 root R holding a 100x100 child C at (50,50).
RootAndChild ==
    LET s1 == createElementIn(EmptyStore, "R", NULL, Rect(0, 0, 400, 400))
    IN  createElementIn(s1, "C", "R", Rect(50, 50, 100, 100))

(***************************************************************************)
(* ConstraintCalculator.                                                   *)
(***************************************************************************)
calculateMovementConstraints(els, id, deltaX, deltaY) ==
    LET element == els[id]
        parent == getParent(els, id)
    IN  IF ~element.stayWithinParent THEN [x |-> deltaX, y |-> deltaY]
        ELSE IF parent = NULL THEN [x |-> deltaX, y |-> deltaY]
        ELSE LET p == els[parent]
                 constrainedX == Max(p.x, Min(element.x + deltaX, p.x + p.w - element.w))
                 constrainedY == Max(p.y, Min(element.y + deltaY, p.y + p.h - element.h))
             IN  [x |-> constrainedX - element.x, y |-> constrainedY - element.y]

\* constraints.minSize of createElement's defaults; maxSize is Infinity
\* there, so the upper clamp of step 1 never binds.
MIN_SIZE == 10

calculateChildrenBoundingBox(els, children) ==
    LET C == {children[i] : i \in DOMAIN children}
        Least(S) == CHOOSE m \in S : \A n \in S : m <= n
        Most(S) == CHOOSE m \in S : \A n \in S : m >= n
        minX == Least({els[c].x : c \in C})
        minY == Least({els[c].y : c \in C})
        maxX == Most({els[c].x + els[c].w : c \in C})
        maxY == Most({els[c].y + els[c].h : c \in C})
    IN  IF children = <<>> THEN Rect(0, 0, 0, 0)
        ELSE Rect(minX, minY, maxX - minX, maxY - minY)

calculateResizeConstraints(els, id, newWidth, newHeight) ==
    LET element == els[id]
        \* 1. minimum / maximum size
        w1 == Max(MIN_SIZE, newWidth)
        h1 == Max(MIN_SIZE, newHeight)
        \* 2. the parent's size
        parent == getParent(els, id)
        w2 == IF parent = NULL THEN w1
              ELSE Min(w1, els[parent].w - (element.x - els[parent].x))
        h2 == IF parent = NULL THEN h1
              ELSE Min(h1, els[parent].h - (element.y - els[parent].y))
        \* 3. the children's bounding box
        children == getChildren(els, id)
        b == calculateChildrenBoundingBox(els, children)
        w3 == IF children = <<>> THEN w2 ELSE Max(w2, b.x + b.w - element.x)
        h3 == IF children = <<>> THEN h2 ELSE Max(h2, b.y + b.h - element.y)
        \* 4. the aspect ratio (newAspectRatio > aspectRatio, cross-multiplied)
        wider == w3 * element.h > element.w * h3
    IN  IF ~element.maintainAspectRatio THEN [width |-> w3, height |-> h3]
        ELSE IF wider THEN [width |-> (h3 * element.w) \div element.h, height |-> h3]
        ELSE [width |-> w3, height |-> (w3 * element.h) \div element.w]

constrainPosition(els, id, newX, newY) ==
    LET element == els[id]
        parent == getParent(els, id)
    IN  IF parent = NULL \/ ~element.stayWithinParent THEN [x |-> newX, y |-> newY]
        ELSE LET p == els[parent]
             IN  [x |-> Max(p.x, Min(newX, p.x + p.w - element.w)),
                  y |-> Max(p.y, Min(newY, p.y + p.h - element.h))]

\* The mutation of recalculateChildrenPositions that leaves every child where
\* it is.
recalculateChildrenPositionsKept(els, parentId, oldWidth, oldHeight) ==
    [c \in Range(getChildren(els, parentId)) |-> [x |-> els[c].x, y |-> els[c].y]]

\* The child's offset as a fraction of the old size, applied to the new size.
recalculateChildrenPositions(els, parentId, oldWidth, oldHeight) ==
    LET parent == els[parentId]
    IN  [c \in Range(getChildren(els, parentId)) |->
            constrainPosition(els, c,
                parent.x + ((els[c].x - parent.x) * parent.w) \div oldWidth,
                parent.y + ((els[c].y - parent.y) * parent.h) \div oldHeight)]

\* The quotients of recalculateChildrenPositions are integral.
IntegralReposition(els, parentId, newWidth, newHeight) ==
    \A c \in Range(getChildren(els, parentId)) :
        /\ ((els[c].x - els[parentId].x) * newWidth) % els[parentId].w = 0
        /\ ((els[c].y - els[parentId].y) * newHeight) % els[parentId].h = 0

(***************************************************************************)
(* StateManager reducer.                                                   *)
(***************************************************************************)
MOVE_ELEMENT(els, id, deltaX, deltaY) ==
    IF id \notin DOMAIN els THEN els
    ELSE [els EXCEPT ![id].x = @ + deltaX, ![id].y = @ + deltaY,
                     ![id].version = @ + 1]

\* The mutation of RESIZE_ELEMENT that gives the new size to the children
\* of the element too.
RESIZE_WITH_CHILDREN(els, id, newSize) ==
    [e \in DOMAIN els |->
        IF e = id \/ els[e].parentId = id
        THEN [els[e] EXCEPT !.w = newSize.width, !.h = newSize.height,
                            !.version = @ + 1]
        ELSE els[e]]

RESIZE_ELEMENT(els, id, newSize) ==
    IF id \notin DOMAIN els THEN els
    ELSE [els EXCEPT ![id].w = newSize.width, ![id].h = newSize.height,
                     ![id].version = @ + 1]

RECURSIVE dispatchMoves(_, _, _, _)
dispatchMoves(els, ids, deltaX, deltaY) ==
    IF ids = <<>> THEN els
    ELSE dispatchMoves(MOVE_ELEMENT(els, Head(ids), deltaX, deltaY), Tail(ids),
                       deltaX, deltaY)

(***************************************************************************)
(* TransformManager (core).                                                *)
(***************************************************************************)
Missing == "missing-id"

Targets == DOMAIN elements \cup {Missing}

VersionsBelow(ids, n) == \A i \in ids : elements[i].version < n

Deltas == {<<500, 0>>, <<-40, -20>>, <<20, 40>>}

\* The mutation of moveElementWithChildren that does not look the element
\* up before it emits.
moveElementUnchecked(elementId, deltaX, deltaY) ==
    /\ IF elementId \notin DOMAIN elements
       THEN /\ UNCHANGED elements
            /\ last' = Op("move", elementId, deltaX, deltaY, deltaX, deltaY,
                          "transform:move")
       ELSE LET d == calculateMovementConstraints(elements, elementId, deltaX, deltaY)
                elementsToMove == <<elementId>> \o getDescendants(elements, elementId)
            IN  /\ VersionsBelow(Range(elementsToMove), MaxVersion)
                /\ elements' = IF d.x = 0 /\ d.y = 0 THEN elements
                               ELSE dispatchMoves(elements, elementsToMove, d.x, d.y)
                /\ last' = Op("move", elementId, deltaX, deltaY, d.x, d.y,
                              IF d.x = 0 /\ d.y = 0 THEN NULL ELSE "transform:move")
    /\ UNCHANGED <<elementOrder, selectedElementId, hoveredElementId, cache,
                   legacyElements, objects, probe, gestures, now>>

\* The history holds the event the call emits, if any.
moveElementWithChildren(elementId, deltaX, deltaY) ==
    /\ IF elementId \notin DOMAIN elements
       THEN /\ UNCHANGED elements
            /\ last' = Op("move", elementId, deltaX, deltaY, 0, 0, NULL)
       ELSE LET d == calculateMovementConstraints(elements, elementId, deltaX, deltaY)
                elementsToMove == <<elementId>> \o getDescendants(elements, elementId)
            IN  /\ VersionsBelow(Range(elementsToMove), MaxVersion)
                /\ elements' = IF d.x = 0 /\ d.y = 0 THEN elements
                               ELSE dispatchMoves(elements, elementsToMove, d.x, d.y)
                /\ last' = Op("move", elementId, deltaX, deltaY, d.x, d.y,
                              IF d.x = 0 /\ d.y = 0 THEN NULL ELSE "transform:move")
    /\ UNCHANGED <<elementOrder, selectedElementId, hoveredElementId, cache,
                   legacyElements, objects, probe, gestures, now>>

\* Each direct child is moved by the difference between its recalculated and
\* its current position; the children's own descendants are not touched.
RECURSIVE repositionChildren(_, _, _)
repositionChildren(els, children, newPositions) ==
    IF children = <<>> THEN els
    ELSE LET c == Head(children)
         IN  repositionChildren(
                 MOVE_ELEMENT(els, c, newPositions[c].x - els[c].x,
                              newPositions[c].y - els[c].y),
                 Tail(children), newPositions)

repositionChildrenAfterResize(els, parentId, oldWidth, oldHeight) ==
    repositionChildren(els, getChildren(els, parentId),
        recalculateChildrenPositions(els, parentId, oldWidth, oldHeight))

Sizes == {<<900, 600>>, <<225, 150>>, <<60, 40>>}

resizeElement(elementId, width, height) ==
    /\ IF elementId \notin DOMAIN elements
       THEN /\ UNCHANGED elements
            /\ last' = Op("resize", elementId, width, height, 0, 0, NULL)
       ELSE LET element == elements[elementId]
                c == calculateResizeConstraints(elements, elementId, width, height)
                changed == c.width # element.w \/ c.height # element.h
                affected == {elementId} \cup Range(getChildren(elements, elementId))
            IN  /\ VersionsBelow(affected, MaxVersion)
                /\ IntegralReposition(elements, elementId, c.width, c.height)
                /\ elements' =
                      IF ~changed THEN elements
                      ELSE repositionChildrenAfterResize(
                               RESIZE_ELEMENT(elements, elementId, c),
                               elementId, element.w, element.h)
                /\ last' = Op("resize", elementId, width, height, c.width, c.height,
                              IF changed THEN "transform:resize" ELSE NULL)
    /\ UNCHANGED <<elementOrder, selectedElementId, hoveredElementId, cache,
                   legacyElements, objects, probe, gestures, now>>

Resize == \E id \in Targets, s \in Sizes : resizeElement(id, s[1], s[2])

Move == \E id \in Targets, d \in Deltas : moveElementWithChildren(id, d[1], d[2])

(***************************************************************************)
(* EdgeDetector (core) and the edge test of the hooks.  Every element has  *)
(* rotation 0 (createElement's default; the host never rotates), so        *)
(* rotatePoint is the identity.                                            *)
(***************************************************************************)
EDGE_THRESHOLD == 10

\* The cache is emptied before an insertion once it holds more entries.
CACHE_LIMIT == 1000

isPointInRotatedRect(pointX, pointY, rectX, rectY, rectWidth, rectHeight) ==
    /\ pointX >= rectX
    /\ pointX <= rectX + rectWidth
    /\ pointY >= rectY
    /\ pointY <= rectY + rectHeight

\* The mutation of calculateEdgeHit without the test for an inner area
\* that is too small.
calculateEdgeHitNoCollapse(x, y, element) ==
    LET isInside == isPointInRotatedRect(x, y, element.x, element.y, element.w, element.h)
        innerWidth == Max(0, element.w - 2 * EDGE_THRESHOLD)
        innerHeight == Max(0, element.h - 2 * EDGE_THRESHOLD)
    IN  IF ~isInside THEN FALSE
        ELSE ~isPointInRotatedRect(x, y, element.x + EDGE_THRESHOLD,
                                   element.y + EDGE_THRESHOLD, innerWidth, innerHeight)

calculateEdgeHit(x, y, element) ==
    LET isInside == isPointInRotatedRect(x, y, element.x, element.y, element.w, element.h)
        innerWidth == Max(0, element.w - 2 * EDGE_THRESHOLD)
        innerHeight == Max(0, element.h - 2 * EDGE_THRESHOLD)
        innerX == element.x + EDGE_THRESHOLD
        innerY == element.y + EDGE_THRESHOLD
    IN  IF ~isInside THEN FALSE
        ELSE IF innerWidth <= 0 \/ innerHeight <= 0 THEN TRUE
        ELSE ~isPointInRotatedRect(x, y, innerX, innerY, innerWidth, innerHeight)

\* isPointNearObjectEdge of canvasObjectUtils, with the default edgeDistance.
isPointNearObjectEdge(x, y, obj) ==
    LET objRight == obj.left + obj.width
        objBottom == obj.top + obj.height
        isInsideObject == x >= obj.left /\ x <= objRight /\ y >= obj.top /\ y <= objBottom
        minDistance == Min(Min(x - obj.left, objRight - x), Min(y - obj.top, objBottom - y))
    IN  IF ~isInsideObject THEN FALSE ELSE minDistance <= EDGE_THRESHOLD

\* isPointInEdge of the component of unnamed/part_002.
isPointInEdge(x, y, rect) ==
    LET innerLeft == rect.x + 10
        innerRight == rect.x + rect.w - 10
        innerTop == rect.y + 10
        innerBottom == rect.y + rect.h - 10
    IN  IF x < rect.x \/ x > rect.x + rect.w \/ y < rect.y \/ y > rect.y + rect.h
        THEN FALSE
        ELSE IF innerLeft >= innerRight \/ innerTop >= innerBottom THEN TRUE
        ELSE ~(x >= innerLeft /\ x <= innerRight /\ y >= innerTop /\ y <= innerBottom)

\* isPointOnEdge: the cached answer for (x, y, id, version) if there is one,
\* the computed answer otherwise, and the cache afterwards.
isPointOnEdge(c, x, y, id, element) ==
    LET cacheKey == <<x, y, id, element.version>>
        result == calculateEdgeHit(x, y, element)
        kept == IF Cardinality(DOMAIN c) > CACHE_LIMIT THEN <<>> ELSE c
    IN  IF cacheKey \in DOMAIN c THEN [result |-> c[cacheKey], cache |-> c]
        ELSE [result |-> result,
              cache |-> [k \in DOMAIN kept \cup {cacheKey} |->
                            IF k = cacheKey THEN result ELSE kept[k]]]

\* The first element of the list that isPointOnEdge accepts, or null.
RECURSIVE getTopElementAtEdge(_, _, _, _, _)
getTopElementAtEdge(c, x, y, els, list) ==
    IF list = <<>> THEN [hit |-> NULL, cache |-> c]
    ELSE LET r == isPointOnEdge(c, x, y, Head(list), els[Head(list)])
         IN  IF r.result THEN [hit |-> Head(list), cache |-> r.cache]
             ELSE getTopElementAtEdge(r.cache, x, y, els, Tail(list))

\* Array.prototype.sort is stable: elements that compare equal keep the
\* Map's insertion order.
RECURSIVE insertByRenderOrder(_, _, _)
insertByRenderOrder(els, sorted, e) ==
    IF sorted = <<>> THEN <<e>>
    ELSE LET a == els[e]
             b == els[Head(sorted)]
             before == IF a.depth # b.depth THEN a.depth < b.depth
                       ELSE a.zIndex < b.zIndex
         IN  IF before THEN <<e>> \o sorted
             ELSE <<Head(sorted)>> \o insertByRenderOrder(els, Tail(sorted), e)

RECURSIVE sortByRenderOrder(_, _)
sortByRenderOrder(els, order) ==
    IF order = <<>> THEN <<>>
    ELSE insertByRenderOrder(els,
             sortByRenderOrder(els, SubSeq(order, 1, Len(order) - 1)),
             order[Len(order)])

getElementsInRenderOrder(els, order) == sortByRenderOrder(els, order)

Reverse(s) == [i \in 1..Len(s) |-> s[Len(s) + 1 - i]]

(***************************************************************************)
(* SelectionManager (core).                                                *)
(***************************************************************************)
QueryPoints == {<<125, 125>>, <<130, 150>>}

\* The mutation of selectAtPoint that tests the elements bottom first.
selectAtPointBottom(x, y) ==
    LET list == getElementsInRenderOrder(elements, elementOrder)
        r == getTopElementAtEdge(cache, x, y, elements, list)
    IN  /\ cache' = r.cache
        /\ selectedElementId' = r.hit
        /\ last' = Op("selectAtPoint", NULL, x, y, 0, 0, r.hit)
        /\ UNCHANGED <<elements, elementOrder, hoveredElementId,
                       legacyElements, objects, probe, gestures, now>>

selectAtPoint(x, y) ==
    LET list == Reverse(getElementsInRenderOrder(elements, elementOrder))
        r == getTopElementAtEdge(cache, x, y, elements, list)
    IN  /\ cache' = r.cache
        /\ selectedElementId' = r.hit
        /\ last' = Op("selectAtPoint", NULL, x, y, 0, 0, r.hit)
        /\ UNCHANGED <<elements, elementOrder, hoveredElementId,
                       legacyElements, objects, probe, gestures, now>>

\* The mutation of handleHover that selects what it hovers.
handleHoverSelecting(x, y) ==
    LET list == Reverse(getElementsInRenderOrder(elements, elementOrder))
        r == getTopElementAtEdge(cache, x, y, elements, list)
    IN  /\ cache' = r.cache
        /\ hoveredElementId' = r.hit
        /\ selectedElementId' = r.hit
        /\ last' = Op("handleHover", hoveredElementId, x, y, 1, 0, r.hit)
        /\ UNCHANGED <<elements, elementOrder,
                       legacyElements, objects, probe, gestures, now>>

\* hoveredElement?.id is undefined when nothing is hit, and undefined differs
\* from every hoveredElementId, null included.  The history holds the
\* previous hovered id and the number of 'hover:changed' events emitted.
handleHover(x, y) ==
    LET list == Reverse(getElementsInRenderOrder(elements, elementOrder))
        r == getTopElementAtEdge(cache, x, y, elements, list)
        changed == r.hit = NULL \/ r.hit # hoveredElementId
    IN  /\ cache' = r.cache
        /\ hoveredElementId' = IF changed THEN r.hit ELSE hoveredElementId
        /\ last' = Op("handleHover", hoveredElementId, x, y,
                      IF changed THEN 1 ELSE 0, 0, r.hit)
        /\ UNCHANGED <<elements, elementOrder, selectedElementId,
                       legacyElements, objects, probe, gestures, now>>

SelectAtPoint == \E q \in QueryPoints : selectAtPoint(q[1], q[2])

HandleHover == \E q \in QueryPoints : handleHover(q[1], q[2])

(***************************************************************************)
(* HierarchyManager.createElement and deleteElement as operations.         *)
(***************************************************************************)
\* deleteElement on the state T = [elements, elementOrder, selectedElementId,
\* hoveredElementId, log]: the children first, then the element itself.  log
\* is the sequence of <<"removed", id>> (the DELETE_ELEMENT dispatch) and
\* <<"element:deleted", id>> (the emit) steps made so far.
\* The mutation of deleteElement that leaves the children in the store.
deleteElementAlone(T, id) ==
    [elements |-> [i \in DOMAIN T.elements \ {id} |-> T.elements[i]],
     elementOrder |-> SelectSeq(T.elementOrder, LAMBDA i : i # id),
     selectedElementId |->
         IF T.selectedElementId = id THEN NULL ELSE T.selectedElementId,
     hoveredElementId |->
         IF T.hoveredElementId = id THEN NULL ELSE T.hoveredElementId,
     log |-> T.log \o <<<<"removed", id>>, <<"element:deleted", id>>>>]

\* The mutation of deleteElement that removes the element and emits its
\* event first and deletes the children afterwards.
RECURSIVE deleteElementParentFirst(_, _)
RECURSIVE deleteAllParentFirst(_, _)
deleteElementParentFirst(T, id) ==
    IF id \in DOMAIN T.elements
    THEN deleteAllParentFirst(deleteElementAlone(T, id),
                              getChildren(T.elements, id))
    ELSE T

deleteAllParentFirst(T, children) ==
    IF children = <<>> THEN T
    ELSE deleteAllParentFirst(deleteElementParentFirst(T, Head(children)),
                              Tail(children))

RECURSIVE deleteElementIn(_, _)
RECURSIVE deleteAllIn(_, _)
deleteElementIn(T, id) ==
    IF id \in DOMAIN T.elements
    THEN LET T1 == deleteAllIn(T, getChildren(T.elements, id))
             parent == getParent(T1.elements, id)
             \* parent.childIds = parent.childIds.filter(...) is a new array,
             \* which the parent alone holds
             unlinked == [i \in DOMAIN T1.elements |->
                            IF i = parent
                            THEN [T1.elements[i] EXCEPT
                                     !.childIds = SelectSeq(@, LAMBDA c : c # id),
                                     !.childIdsRef = {parent}]
                            ELSE IF parent # NULL
                                    /\ i \in T1.elements[parent].childIdsRef
                                 THEN [T1.elements[i] EXCEPT !.childIdsRef = @ \ {parent}]
                                 ELSE T1.elements[i]]
         IN  [elements |-> [i \in DOMAIN unlinked \ {id} |->
                               [unlinked[i] EXCEPT !.childIdsRef = @ \ {id}]],
              elementOrder |-> SelectSeq(T1.elementOrder, LAMBDA i : i # id),
              selectedElementId |->
                  IF T1.selectedElementId = id THEN NULL ELSE T1.selectedElementId,
              hoveredElementId |->
                  IF T1.hoveredElementId = id THEN NULL ELSE T1.hoveredElementId,
              \* the DELETE_ELEMENT dispatch, then the emit
              log |-> T1.log \o <<<<"removed", id>>, <<"element:deleted", id>>>>]
    ELSE T

deleteAllIn(T, children) ==
    IF children = <<>> THEN T
    ELSE deleteAllIn(deleteElementIn(T, Head(children)), Tail(children))

\* The history holds the id that was selected when the call was made (ret)
\* and, in place of the first numeric argument, the removals from the store
\* and the 'element:deleted' events of the call in the order they happened.
deleteElement(id) ==
    LET T == deleteElementIn([elements |-> elements, elementOrder |-> elementOrder,
                              selectedElementId |-> selectedElementId,
                              hoveredElementId |-> hoveredElementId,
                              log |-> <<>>], id)
    IN  /\ elements' = T.elements
        /\ elementOrder' = T.elementOrder
        /\ selectedElementId' = T.selectedElementId
        /\ hoveredElementId' = T.hoveredElementId
        /\ last' = Op("delete", id, T.log, 0, 0, 0, selectedElementId)
        /\ UNCHANGED <<cache, legacyElements, objects, probe, gestures, now>>

\* The ids createElement is called with.
ElementIds == {"new-rect"}

CreateRects == {Rect(120, 120, 100, 100), Rect(0, 0, 100, 100)}

\* createElement with an id that is not in the store.  A parent id that is
\* not in the store makes it throw before anything is changed.
createElement(id, parentId, props) ==
    /\ id \notin DOMAIN elements
    /\ IF parentId # NULL /\ parentId \notin DOMAIN elements
       THEN /\ UNCHANGED <<elements, elementOrder>>
            /\ last' = Op("create", id, props.x, props.y, 0, 0, "ParentNotFound")
       ELSE LET S == createElementIn([elements |-> elements,
                                      elementOrder |-> elementOrder],
                                     id, parentId, props)
            IN  /\ elements' = S.elements
                /\ elementOrder' = S.elementOrder
                /\ last' = Op("create", id, props.x, props.y, 0, 0, id)
    /\ UNCHANGED <<selectedElementId, hoveredElementId, cache,
                   legacyElements, objects, probe, gestures, now>>

\* The props createElement is called with: a position and a size, and
\* possibly a field createElement computes itself.
CreateProps ==
    CreateRects \cup {[x |-> 0, y |-> 0, w |-> 100, h |-> 100, depth |-> 0],
                      [x |-> 0, y |-> 0, w |-> 100, h |-> 100, selected |-> TRUE]}

Create ==
    \E id \in ElementIds, parentId \in DOMAIN elements \cup {NULL, Missing},
       props \in CreateProps : createElement(id, parentId, props)

Delete == \E id \in Targets : deleteElement(id)

(***************************************************************************)
(* TransformManager.duplicateElement (core).                               *)
(***************************************************************************)
\* The instants Date.now() returns during the duplications.
Instants == {1}

\* `${id}_copy_${Date.now()}`
copyId(id, t) == id \o "_copy_" \o ToString(t)

\* The props of a copy: every field of the original (its parentId, depth,
\* zIndex and its childIds array included), moved by the default offset.
duplicateProps(element) ==
    [element EXCEPT !.x = @ + 10, !.y = @ + 10,
                    !.selected = FALSE, !.hovered = FALSE, !.version = 1]

\* duplicateChildren over the children fetched before the loop.
RECURSIVE duplicateChildrenIn(_, _, _, _)
duplicateChildrenIn(S, children, newParentId, t) ==
    IF children = <<>> THEN S
    ELSE LET child == Head(children)
             newChildId == copyId(child, t)
             S1 == createElementIn(S, newChildId, newParentId,
                                   duplicateProps(S.elements[child]))
             S2 == duplicateChildrenIn(S1, getChildren(S1.elements, child),
                                       newChildId, t)
         IN  duplicateChildrenIn(S2, Tail(children), newParentId, t)

\* duplicateElement of an element of the store, at the instant t.
duplicateElementIn(S, elementId, t) ==
    LET newId == copyId(elementId, t)
        S1 == createElementIn(S, newId, S.elements[elementId].parentId,
                              duplicateProps(S.elements[elementId]))
    IN  duplicateChildrenIn(S1, getChildren(S1.elements, elementId), newId, t)

\* The clock has moved on since the last duplication.
duplicateElement(elementId, t) ==
    /\ now < t
    /\ now' = t
    /\ IF elementId \notin DOMAIN elements
       THEN /\ UNCHANGED <<elements, elementOrder>>
            /\ last' = Op("duplicate", elementId, 0, 0, 0, 0, NULL)
       ELSE LET S == duplicateElementIn([elements |-> elements,
                                         elementOrder |-> elementOrder],
                                        elementId, t)
            IN  /\ elements' = S.elements
                /\ elementOrder' = S.elementOrder
                /\ last' = Op("duplicate", elementId, 0, 0, 0, 0,
                              copyId(elementId, t))
    /\ UNCHANGED <<selectedElementId, hoveredElementId, cache,
                   legacyElements, objects, probe, gestures>>

Duplicate == \E id \in Targets, t \in Instants : duplicateElement(id, t)

(***************************************************************************)
(* SelectionManager.selectByDrag (core).                                   *)
(***************************************************************************)
\* The mutation of isElementFullyContained that is satisfied by one corner.
isElementTouched(element, selectionRect) ==
    \E corner \in {<<element.x, element.y>>,
                    <<element.x + element.w, element.y>>,
                    <<element.x + element.w, element.y + element.h>>,
                    <<element.x, element.y + element.h>>} :
        /\ corner[1] >= selectionRect.x
        /\ corner[1] <= selectionRect.x + selectionRect.w
        /\ corner[2] >= selectionRect.y
        /\ corner[2] <= selectionRect.y + selectionRect.h

\* All four corners of the element within the selection rectangle, its
\* border included.
isElementFullyContained(element, selectionRect) ==
    \A corner \in {<<element.x, element.y>>,
                    <<element.x + element.w, element.y>>,
                    <<element.x + element.w, element.y + element.h>>,
                    <<element.x, element.y + element.h>>} :
        /\ corner[1] >= selectionRect.x
        /\ corner[1] <= selectionRect.x + selectionRect.w
        /\ corner[2] >= selectionRect.y
        /\ corner[2] <= selectionRect.y + selectionRect.h

\* The loop of findTopLevelParent from the candidate topLevel onwards.
RECURSIVE findTopLevelFrom(_, _, _)
findTopLevelFrom(els, topLevel, candidates) ==
    IF candidates = <<>> THEN topLevel
    ELSE LET candidate == Head(candidates)
             next == IF els[candidate].depth < els[topLevel].depth THEN candidate
                     ELSE IF els[candidate].depth = els[topLevel].depth
                             /\ els[candidate].zIndex > els[topLevel].zIndex
                          THEN candidate ELSE topLevel
         IN  findTopLevelFrom(els, next, Tail(candidates))

findTopLevelParent(els, candidates) ==
    IF candidates = <<>> THEN NULL
    ELSE findTopLevelFrom(els, Head(candidates), candidates)

\* The candidates in the iteration order of the Map.
dragCandidates(els, order, selectionRect) ==
    SelectSeq(order, LAMBDA i : isElementFullyContained(els[i], selectionRect))

selectByDrag(selectionRect) ==
    LET candidates == dragCandidates(elements, elementOrder, selectionRect)
        topLevelParent == findTopLevelParent(elements, candidates)
    IN  /\ selectedElementId' = topLevelParent
        /\ last' = Op("selectByDrag", NULL, selectionRect.x, selectionRect.y,
                      selectionRect.w, selectionRect.h, topLevelParent)
        /\ UNCHANGED <<elements, elementOrder, hoveredElementId, cache,
                       legacyElements, objects, probe, gestures, now>>

\* The selection rectangles that are dragged.
DragRects == {Rect(0, 0, 400, 300), Rect(110, 110, 170, 120),
              Rect(120, 120, 100, 100), Rect(90, 90, 100, 300)}

SelectByDrag == \E r \in DragRects : selectByDrag(r)

(***************************************************************************)
(* The legacy HierarchyManager and TransformManager (unnamed/part_008,     *)
(* second half, and unnamed/part_006).  Elements are mutated in place.     *)
(***************************************************************************)
\* A legacy move is explored while the moved element stays within
\* MaxCoordinate of the origin on both axes.
MaxCoordinate == 600

\* getDepth: the depth of an element that is not in the store is 0.
legacyGetDepth(els, elementId) ==
    IF elementId \in DOMAIN els THEN els[elementId].depth ELSE 0

legacyCreateElement(els, id, parentId, props) ==
    LET element == [parentId |-> parentId, childIds |-> <<>>,
                    depth |-> IF parentId = NULL THEN 0
                              ELSE legacyGetDepth(els, parentId) + 1,
                    x |-> props.x, y |-> props.y, w |-> props.w, h |-> props.h,
                    selected |-> FALSE, stayWithinParent |-> TRUE]
        withChild == IF parentId = NULL \/ parentId \notin DOMAIN els THEN els
                     ELSE [els EXCEPT ![parentId].childIds = Append(@, id)]
    IN  [i \in DOMAIN els \cup {id} |-> IF i = id THEN element ELSE withChild[i]]

initializeThreeRectangles ==
    LET e1 == legacyCreateElement(<<>>, "blue-rect", NULL, Rect(200, 100, 400, 400))
        e2 == legacyCreateElement(e1, "orange-rect", "blue-rect", Rect(275, 175, 250, 250))
    IN  legacyCreateElement(e2, "purple-rect", "orange-rect", Rect(325, 225, 150, 150))

\* Private, and called from nowhere in the class.
constrainMovement(els, id, deltaX, deltaY) ==
    LET element == els[id]
        parent == getParent(els, id)
    IN  IF parent = NULL THEN [x |-> deltaX, y |-> deltaY]
        ELSE LET p == els[parent]
                 constrainedX == Max(p.x, Min(p.x + p.w - element.w, element.x + deltaX))
                 constrainedY == Max(p.y, Min(p.y + p.h - element.h, element.y + deltaY))
             IN  [x |-> constrainedX - element.x, y |-> constrainedY - element.y]

RECURSIVE moveRecursive(_, _, _, _)
RECURSIVE moveRecursiveAll(_, _, _, _)
moveRecursive(els, id, deltaX, deltaY) ==
    moveRecursiveAll([els EXCEPT ![id].x = @ + deltaX, ![id].y = @ + deltaY],
                     els[id].childIds, deltaX, deltaY)

moveRecursiveAll(els, childIds, deltaX, deltaY) ==
    IF childIds = <<>> THEN els
    ELSE moveRecursiveAll(
             IF Head(childIds) \in DOMAIN els
             THEN moveRecursive(els, Head(childIds), deltaX, deltaY) ELSE els,
             Tail(childIds), deltaX, deltaY)

LegacyDeltas == {<<300, 0>>, <<0, 300>>}

LegacyTargets == DOMAIN legacyElements \cup {Missing}

moveElement(elementId, deltaX, deltaY) ==
    /\ IF elementId \notin DOMAIN legacyElements
       THEN UNCHANGED legacyElements
       ELSE /\ legacyElements[elementId].x + deltaX \in 0..MaxCoordinate
            /\ legacyElements[elementId].y + deltaY \in 0..MaxCoordinate
            /\ legacyElements' = moveRecursive(legacyElements, elementId, deltaX, deltaY)
    /\ last' = Op("moveElement", elementId, deltaX, deltaY, deltaX, deltaY, NULL)
    /\ UNCHANGED <<coreVars, objects, probe, gestures, now>>

constrainSize(els, id, newWidth, newHeight) ==
    LET element == els[id]
        parent == getParent(els, id)
    IN  IF parent = NULL THEN [width |-> newWidth, height |-> newHeight]
        ELSE [width |-> Min(newWidth, els[parent].w - (element.x - els[parent].x)),
              height |-> Min(newHeight, els[parent].h - (element.y - els[parent].y))]

\* Children keep their relative position; the recursion hands each child its
\* own, unchanged, size as the old size.
RECURSIVE legacyRepositionChildrenAfterResize(_, _, _, _)
RECURSIVE legacyRepositionAll(_, _, _, _, _)
legacyRepositionChildrenAfterResize(els, parentId, oldWidth, oldHeight) ==
    legacyRepositionAll(els, parentId, els[parentId].childIds, oldWidth, oldHeight)

legacyRepositionAll(els, parentId, childIds, oldWidth, oldHeight) ==
    IF childIds = <<>> THEN els
    ELSE LET c == Head(childIds)
             p == els[parentId]
             moved == [els EXCEPT
                         ![c].x = p.x + ((@ - p.x) * p.w) \div oldWidth,
                         ![c].y = p.y + ((@ - p.y) * p.h) \div oldHeight]
         IN  legacyRepositionAll(
                 IF c \in DOMAIN els
                 THEN legacyRepositionChildrenAfterResize(moved, c, els[c].w, els[c].h)
                 ELSE els,
                 parentId, Tail(childIds), oldWidth, oldHeight)

LegacySizes == {<<800, 800>>, <<200, 200>>}

legacyResizeElement(elementId, newWidth, newHeight) ==
    /\ IF elementId \notin DOMAIN legacyElements
       THEN /\ UNCHANGED legacyElements
            /\ last' = Op("resizeElement", elementId, newWidth, newHeight, 0, 0, NULL)
       ELSE LET element == legacyElements[elementId]
                c == constrainSize(legacyElements, elementId, newWidth, newHeight)
            IN  \* explored while the constrained size is positive
                /\ c.width > 0 /\ c.height > 0
                /\ IntegralReposition(legacyElements, elementId, c.width, c.height)
                /\ legacyElements' =
                      legacyRepositionChildrenAfterResize(
                          [legacyElements EXCEPT ![elementId].w = c.width,
                                                 ![elementId].h = c.height],
                          elementId, element.w, element.h)
                /\ last' = Op("resizeElement", elementId, newWidth, newHeight,
                              c.width, c.height, NULL)
    /\ UNCHANGED <<coreVars, objects, probe, gestures, now>>

\* createElement with an id that is not in the store.  Nothing is thrown:
\* with a parent id that is not in the store the element is stored all the
\* same, its parentId naming no element.
legacyCreate(id, parentId, props) ==
    /\ id \notin DOMAIN legacyElements
    /\ legacyElements' = legacyCreateElement(legacyElements, id, parentId, props)
    /\ last' = Op("legacyCreate", id, props.x, props.y, 0, 0, id)
    /\ UNCHANGED <<coreVars, objects, probe, gestures, now>>

LegacyCreateRects == {Rect(350, 250, 50, 50)}

LegacyCreate ==
    \E id \in ElementIds, parentId \in DOMAIN legacyElements \cup {NULL, Missing},
       props \in LegacyCreateRects : legacyCreate(id, parentId, props)

LegacyMove == \E id \in LegacyTargets, d \in LegacyDeltas : moveElement(id, d[1], d[2])

LegacyResize ==
    \E id \in LegacyTargets, s \in LegacySizes : legacyResizeElement(id, s[1], s[2])

InitLegacy ==
    /\ elements = <<>>
    /\ elementOrder = <<>>
    /\ selectedElementId = NULL
    /\ hoveredElementId = NULL
    /\ cache = <<>>
    /\ legacyElements = initializeThreeRectangles
    /\ objects = <<>>
    /\ probe = <<>>
    /\ gestures = 0
    /\ now = 0
    /\ last = NoOp

NextLegacy == LegacyMove \/ LegacyResize

SpecLegacy == InitLegacy /\ [][NextLegacy]_vars

\* The legacy store under creations and moves.
NextLegacyCreate == LegacyCreate \/ LegacyMove

SpecLegacyCreate == InitLegacy /\ [][NextLegacyCreate]_vars

InitCore(S) ==
    /\ elements = S.elements
    /\ elementOrder = S.elementOrder
    /\ selectedElementId = NULL
    /\ hoveredElementId = NULL
    /\ cache = <<>>
    /\ legacyElements = <<>>
    /\ objects = <<>>
    /\ probe = <<>>
    /\ gestures = 0
    /\ now = 0
    /\ last = NoOp

Init == InitCore(ThreeRectangles)

Next == Create \/ Delete \/ SelectAtPoint \/ HandleHover \/ SelectByDrag

Spec == Init /\ [][Next]_vars

\* The store under creation, deletion and duplication.
NextHierarchy == Create \/ Delete \/ Duplicate

SpecHierarchy == Init /\ [][NextHierarchy]_vars

\* The core store under duplications and moves.
NextDuplicateMove == Duplicate \/ Move

SpecDuplicateMove == Init /\ [][NextDuplicateMove]_vars

(***************************************************************************)
(* CanvasEditor.tsx: the Fabric based component.  The canvas objects are   *)
(* React state; each commit rebuilds the Fabric rectangles from them with  *)
(* scale 1.  A scaling gesture is an object:scaling event (Fabric has set  *)
(* the target's scale from the pointer and, for a left or top handle, its  *)
(* left or top so that the opposite edge stays where it was) followed by   *)
(* object:modified with the pointer over the canvas.  A scaled width is    *)
(* the integer target.width * target.scaleX.                               *)
(***************************************************************************)
initialObjects ==
    [id \in {"parent", "child", "grandchild"} |->
        CASE id = "parent" ->
               [parentId |-> NULL, left |-> 100, top |-> 50, width |-> 600, height |-> 500]
          [] id = "child" ->
               [parentId |-> "parent", left |-> 150, top |-> 100, width |-> 300, height |-> 250]
          [] id = "grandchild" ->
               [parentId |-> "child", left |-> 200, top |-> 150, width |-> 150, height |-> 100]]

\* The parent's rectangle, or the canvas for an object without a parent.
getBoundaryConstraints(objs, id) ==
    LET parentId == objs[id].parentId
    IN  IF parentId # NULL /\ parentId \in DOMAIN objs
        THEN [minLeft |-> objs[parentId].left, minTop |-> objs[parentId].top,
              maxRight |-> objs[parentId].left + objs[parentId].width,
              maxBottom |-> objs[parentId].top + objs[parentId].height]
        ELSE [minLeft |-> 0, minTop |-> 0, maxRight |-> 800, maxBottom |-> 600]

Corners == {"tl", "tr", "bl", "br", "ml", "mr", "mt", "mb"}

Includes(corner, letter) ==
    \E i \in 1..Len(corner) : SubSeq(corner, i, i) = letter

\* Largest of a non-empty set of numbers together with 0.
MaxOf(S) == CHOOSE m \in S \cup {0} : \A n \in S \cup {0} : m >= n

\* handleObjectScaling: target is the Fabric rectangle as the pointer left it
\* (left, top, scaledWidth, scaledHeight); the result is the rectangle after
\* the handler has constrained its scale.  maxScale and minScale are kept as
\* widths and heights; minScaleLimit 0.1 is width / 10.
handleObjectScaling(objs, id, corner, target) ==
    LET targetObj == objs[id]
        right == target.left + target.scaledWidth
        bottom == target.top + target.scaledHeight
        b == getBoundaryConstraints(objs, id)
        maxWidth == IF Includes(corner, "l") THEN right - b.minLeft
                    ELSE IF Includes(corner, "r") THEN b.maxRight - target.left
                    ELSE Min(right - b.minLeft, b.maxRight - target.left)
        maxHeight == IF Includes(corner, "t") THEN bottom - b.minTop
                     ELSE IF Includes(corner, "b") THEN b.maxBottom - target.top
                     ELSE Min(bottom - b.minTop, b.maxBottom - target.top)
        children == {c \in DOMAIN objs : objs[c].parentId = id}
        maxRequiredWidth ==
            MaxOf({objs[c].left - targetObj.left + objs[c].width : c \in children})
        maxRequiredHeight ==
            MaxOf({objs[c].top - targetObj.top + objs[c].height : c \in children})
        minWidth == Max(targetObj.width \div 10, maxRequiredWidth)
        minHeight == Max(targetObj.height \div 10, maxRequiredHeight)
    IN  [left |-> target.left, top |-> target.top,
         scaledWidth |-> IF target.scaledWidth < minWidth THEN minWidth
                         ELSE IF target.scaledWidth > maxWidth THEN maxWidth
                         ELSE target.scaledWidth,
         scaledHeight |-> IF target.scaledHeight < minHeight THEN minHeight
                          ELSE IF target.scaledHeight > maxHeight THEN maxHeight
                          ELSE target.scaledHeight]

\* handleObjectModified after scaling: the scale is baked into the size and
\* the target's rectangle is committed; the descendants' Fabric rectangles
\* were not touched, so their committed positions are the old ones.
handleObjectModified(objs, id, target) ==
    [objs EXCEPT ![id].left = target.left, ![id].top = target.top,
                 ![id].width = target.scaledWidth, ![id].height = target.scaledHeight]

\* The widths and heights the pointer scales to.
ScaledSizes == {100, 400, 700}

\* Fabric's part of the gesture: the scaled size along the axes the handle
\* scales, and the edge opposite to the handle kept in place.
fabricScale(obj, corner, width, height) ==
    LET scaledWidth == IF corner \in {"mt", "mb"} THEN obj.width ELSE width
        scaledHeight == IF corner \in {"ml", "mr"} THEN obj.height ELSE height
    IN  [left |-> IF Includes(corner, "l") THEN obj.left + obj.width - scaledWidth
                  ELSE obj.left,
         top |-> IF Includes(corner, "t") THEN obj.top + obj.height - scaledHeight
                 ELSE obj.top,
         scaledWidth |-> scaledWidth, scaledHeight |-> scaledHeight]

scaleObject(id, corner, width, height) ==
    LET pointed == fabricScale(objects[id], corner, width, height)
        target == handleObjectScaling(objects, id, corner, pointed)
    IN  /\ gestures < MaxGestures
        /\ objects[id].width % 10 = 0
        /\ objects[id].height % 10 = 0
        /\ gestures' = gestures + 1
        /\ objects' = handleObjectModified(objects, id, target)
        /\ last' = Op("scaling", id, width, height,
                      target.scaledWidth, target.scaledHeight, corner)
        /\ UNCHANGED <<coreVars, legacyElements, probe, now>>

Scale ==
    \E id \in DOMAIN objects, corner \in Corners, w \in ScaledSizes, h \in ScaledSizes :
        scaleObject(id, corner, w, h)

InitEditor ==
    /\ elements = <<>>
    /\ elementOrder = <<>>
    /\ selectedElementId = NULL
    /\ hoveredElementId = NULL
    /\ cache = <<>>
    /\ legacyElements = <<>>
    /\ objects = initialObjects
    /\ probe = <<>>
    /\ gestures = 0
    /\ now = 0
    /\ last = NoOp

NextEditor == Scale

SpecEditor == InitEditor /\ [][NextEditor]_vars

(***************************************************************************)
(* The scale of a Fabric rectangle across resize gestures.  Fabric scales  *)
(* a rectangle by setting scaleX and scaleY and leaves width and height    *)
(* alone; handleObjectModified bakes the scale into the size.  A scale is  *)
(* kept in ten-thousandths: ScaleUnit is the scale 1 and BAKE_TOLERANCE    *)
(* the 0.001 of the handler.  probe holds the Fabric rectangles and the    *)
(* target of the gesture under way.                                        *)
(***************************************************************************)
ScaleUnit == 10000

BAKE_TOLERANCE == 10

Abs(n) == IF n < 0 THEN -n ELSE n

\* The Fabric rectangle the sync effect builds for a stored object.
AsScaledRect(obj) ==
    [left |-> obj.left, top |-> obj.top, width |-> obj.width,
     height |-> obj.height, scaleX |-> ScaleUnit, scaleY |-> ScaleUnit]

\* The mutation of the baking that leaves the target as it is.
keepScale(target) == target

\* "Bake in scale if not 1": the target after the first part of
\* handleObjectModified.
bakeScale(target) ==
    IF Abs(target.scaleX - ScaleUnit) > BAKE_TOLERANCE
       \/ Abs(target.scaleY - ScaleUnit) > BAKE_TOLERANCE
    THEN [target EXCEPT !.width = (target.width * target.scaleX) \div ScaleUnit,
                        !.height = (target.height * target.scaleY) \div ScaleUnit,
                        !.scaleX = ScaleUnit, !.scaleY = ScaleUnit]
    ELSE target

\* The scales the pointer gives: a half, 1, 1.0005, 1.001 and one and a half.
Scales == {5000, 10000, 10005, 10010, 15000}

\* object:scaling: Fabric has given the target the scale (sx, sy).  Scales
\* that the baking turns into a fraction of a unit are left out.
scaleTarget(id, sx, sy) ==
    LET target == [probe.fabric[id] EXCEPT !.scaleX = sx, !.scaleY = sy]
    IN  /\ gestures < MaxGestures
        /\ probe.target \in {NULL, id}
        /\ (target.width * sx) % ScaleUnit = 0 \/ bakeScale(target) = target
        /\ (target.height * sy) % ScaleUnit = 0 \/ bakeScale(target) = target
        /\ probe' = [fabric |-> [probe.fabric EXCEPT ![id] = target], target |-> id]
        /\ last' = Op("objectScaling", id, sx, sy, 0, 0, NULL)
        /\ UNCHANGED <<coreVars, legacyElements, objects, gestures, now>>

\* object:modified with the pointer over the canvas: the scale is baked,
\* the target's rectangle is stored, and the effect that depends on objects
\* rebuilds the Fabric rectangles from the stored ones.  The history holds
\* the scale and the unscaled size the target had when the event came.
commitScaledTarget ==
    LET id == probe.target
        before == probe.fabric[id]
        target == bakeScale(before)
        stored == handleObjectModified(objects, id,
                      [left |-> target.left, top |-> target.top,
                       scaledWidth |-> target.width,
                       scaledHeight |-> target.height])
    IN  /\ probe.target # NULL
        /\ gestures' = gestures + 1
        /\ objects' = stored
        /\ probe' = [fabric |-> [i \in DOMAIN stored |-> AsScaledRect(stored[i])],
                     target |-> NULL]
        /\ last' = Op("objectModified", id, before.scaleX, before.scaleY,
                      before.width, before.height, NULL)
        /\ UNCHANGED <<coreVars, legacyElements, now>>

InitBake ==
    /\ elements = <<>>
    /\ elementOrder = <<>>
    /\ selectedElementId = NULL
    /\ hoveredElementId = NULL
    /\ cache = <<>>
    /\ legacyElements = <<>>
    /\ objects = initialObjects
    /\ probe = [fabric |-> [i \in DOMAIN initialObjects |->
                               AsScaledRect(initialObjects[i])],
                target |-> NULL]
    /\ gestures = 0
    /\ now = 0
    /\ last = NoOp

NextBake ==
    \/ \E id \in DOMAIN objects, sx \in Scales, sy \in Scales : scaleTarget(id, sx, sy)
    \/ commitScaledTarget

SpecBake == InitBake /\ [][NextBake]_vars

(***************************************************************************)
(* The hook useCanvasObjectManipulation (unnamed/part_013) under the       *)
(* component of unnamed/part_000.  objects is the React state; probe holds *)
(* the refs of the hook and the Fabric rectangles:                         *)
(*   fabric             fabricObjectsRef: id -> displayed rectangle        *)
(*   currentOperation   currentOperationRef: null, "moving" or "scaling"   *)
(*   mouseIsOverCanvas  the ref of that name                               *)
(*   transformTarget    the active object Fabric is transforming, if any   *)
(*   actionPerformed    Fabric's flag: the transform has changed the target*)
(*   resizing           resizingRef (the pointer is kept as its distance   *)
(*                      from startPointer)                                 *)
(*   gestureStart       history: objects when the gesture began            *)
(* Fabric sends object:moving and object:scaling for the object it is      *)
(* transforming only; discardActiveObject ends the transform.  A commit    *)
(* (setObjects) makes the effect of part_000 rebuild every Fabric          *)
(* rectangle from objects.                                                 *)
(***************************************************************************)
RECURSIVE getAllDescendants(_, _)
getAllDescendants(objs, parentId) ==
    LET children == {c \in DOMAIN objs : objs[c].parentId = parentId}
    IN  children \cup UNION {getAllDescendants(objs, c) : c \in children}

\* The code returns null when there are no children: here the field none
\* is true.
getChildrenBoundingBox(objs, parentId) ==
    LET children == {c \in DOMAIN objs : objs[c].parentId = parentId}
    IN  IF children = {}
        THEN [none |-> TRUE, minLeft |-> 0, minTop |-> 0, maxRight |-> 0,
              maxBottom |-> 0]
        ELSE [none |-> FALSE,
              minLeft |-> -MaxOf({-objs[c].left : c \in children}),
              minTop |-> -MaxOf({-objs[c].top : c \in children}),
              maxRight |-> MaxOf({objs[c].left + objs[c].width : c \in children}),
              maxBottom |-> MaxOf({objs[c].top + objs[c].height : c \in children})]

AsFabricRect(obj) ==
    [left |-> obj.left, top |-> obj.top, width |-> obj.width, height |-> obj.height]

\* The effect of part_000 that follows a change of objects.
syncFabric(objs) == [id \in DOMAIN objs |-> AsFabricRect(objs[id])]

\* The mutation of manipulationObjectModified that commits wherever the
\* pointer is.
manipulationObjectModifiedAnywhere(W, targetId) ==
    LET updated == {targetId} \cup getAllDescendants(W.objects, targetId)
        committed ==
            [id \in DOMAIN W.objects |->
                IF id = targetId
                THEN [W.objects[id] EXCEPT !.left = W.fabric[id].left,
                                           !.top = W.fabric[id].top,
                                           !.width = W.fabric[id].width,
                                           !.height = W.fabric[id].height]
                ELSE IF id \in updated
                THEN [W.objects[id] EXCEPT !.left = W.fabric[id].left,
                                           !.top = W.fabric[id].top]
                ELSE W.objects[id]]
    IN  [W EXCEPT !.objects = committed, !.fabric = syncFabric(committed),
                  !.currentOperation = NULL]

\* handleObjectModified of the hook: the target and its descendants are
\* committed from their Fabric rectangles, unless the pointer is outside.
manipulationObjectModified(W, targetId) ==
    IF ~W.mouseIsOverCanvas THEN W
    ELSE manipulationObjectModifiedAnywhere(W, targetId)

NoResize ==
    [objectId |-> NULL, handle |-> NULL,
     startDims |-> [left |-> 0, top |-> 0, width |-> 0, height |-> 0]]

endCustomResize(W) ==
    IF W.resizing.objectId = NULL THEN W
    ELSE LET id == W.resizing.objectId
             committed ==
                 [W.objects EXCEPT ![id].left = W.fabric[id].left,
                                   ![id].top = W.fabric[id].top,
                                   ![id].width = W.fabric[id].width,
                                   ![id].height = W.fabric[id].height]
         IN  [W EXCEPT !.objects = committed, !.fabric = syncFabric(committed),
                       !.resizing = NoResize, !.currentOperation = NULL]

\* updateCustomResize: the rectangle of the resized object for a pointer at
\* (dx, dy) from startPointer.  The eight cases of each switch are written
\* by the sides the handle moves.
updateCustomResize(W, dx, dy) ==
    LET objectId == W.resizing.objectId
        handle == W.resizing.handle
        sd == W.resizing.startDims
        constraints == getBoundaryConstraints(W.objects, objectId)
        minSize == 20
        childBounds == getChildrenBoundingBox(W.objects, objectId)
        movesLeft == handle \in {"tl", "bl", "ml"}
        movesRight == handle \in {"tr", "br", "mr"}
        movesTop == handle \in {"tl", "tr", "mt"}
        movesBottom == handle \in {"bl", "br", "mb"}
        left1 == IF ~movesLeft THEN sd.left
                 ELSE IF ~childBounds.none /\ sd.left + dx > childBounds.minLeft
                      THEN childBounds.minLeft ELSE sd.left + dx
        top1 == IF ~movesTop THEN sd.top
                ELSE IF ~childBounds.none /\ sd.top + dy > childBounds.minTop
                     THEN childBounds.minTop ELSE sd.top + dy
        width1 == IF movesLeft THEN sd.left + sd.width - left1
                  ELSE IF ~movesRight THEN sd.width
                  ELSE IF ~childBounds.none
                          /\ sd.left + sd.width + dx < childBounds.maxRight
                       THEN childBounds.maxRight - sd.left ELSE sd.width + dx
        height1 == IF movesTop THEN sd.top + sd.height - top1
                   ELSE IF ~movesBottom THEN sd.height
                   ELSE IF ~childBounds.none
                           /\ sd.top + sd.height + dy < childBounds.maxBottom
                        THEN childBounds.maxBottom - sd.top ELSE sd.height + dy
        width2 == Max(minSize, width1)
        height2 == Max(minSize, height1)
        left3 == Max(constraints.minLeft, left1)
        top3 == Max(constraints.minTop, top1)
        horizontal ==
            IF movesLeft
            THEN IF sd.left + sd.width - left3 < minSize
                 THEN [left |-> sd.left + sd.width - minSize, width |-> minSize]
                 ELSE [left |-> left3, width |-> sd.left + sd.width - left3]
            ELSE IF movesRight
            THEN [left |-> left1,
                  width |-> Max(minSize, Min(width2, constraints.maxRight - left1))]
            ELSE [left |-> left1, width |-> width2]
        vertical ==
            IF movesTop
            THEN IF sd.top + sd.height - top3 < minSize
                 THEN [top |-> sd.top + sd.height - minSize, height |-> minSize]
                 ELSE [top |-> top3, height |-> sd.top + sd.height - top3]
            ELSE IF movesBottom
            THEN [top |-> top1,
                  height |-> Max(minSize, Min(height2, constraints.maxBottom - top1))]
            ELSE [top |-> top1, height |-> height2]
    IN  IF objectId = NULL THEN W
        ELSE [W EXCEPT !.fabric[objectId] =
                          [left |-> horizontal.left, top |-> vertical.top,
                           width |-> horizontal.width, height |-> vertical.height]]

\* The manipulations explored: each begins with a press on an object that
\* is ready to be dragged.
MaxManipulations == 2

ManipulationWorld ==
    [objects |-> objects, fabric |-> probe.fabric,
     currentOperation |-> probe.currentOperation,
     mouseIsOverCanvas |-> probe.mouseIsOverCanvas,
     resizing |-> probe.resizing]

\* The state after a handler that has left the world W.
ManipulationResult(W, target, performed, start) ==
    /\ objects' = W.objects
    /\ probe' = [fabric |-> W.fabric, currentOperation |-> W.currentOperation,
                 mouseIsOverCanvas |-> W.mouseIsOverCanvas,
                 transformTarget |-> target, actionPerformed |-> performed,
                 resizing |-> W.resizing, gestureStart |-> start]
    /\ UNCHANGED <<coreVars, legacyElements, now>>

\* handleMouseDown of useCanvasEvents on the selected, drag ready object:
\* Fabric starts a transform of it.
pressReadyObject(id) ==
    /\ gestures < MaxManipulations
    /\ probe.transformTarget = NULL
    /\ probe.mouseIsOverCanvas
    /\ gestures' = gestures + 1
    /\ ManipulationResult([ManipulationWorld EXCEPT !.currentOperation = NULL],
                          id, FALSE, objects)
    /\ last' = Op("mouseDown", id, 0, 0, 0, 0, NULL)

\* object:moving: Fabric has put the target at (left, top).
handleObjectMoving(id, left, top) ==
    LET W == ManipulationWorld
        dragged == [W.fabric EXCEPT ![id].left = left, ![id].top = top]
        targetObj == objects[id]
        constraints == getBoundaryConstraints(objects, id)
        constrainedLeft == Max(constraints.minLeft,
                               Min(left, constraints.maxRight - targetObj.width))
        constrainedTop == Max(constraints.minTop,
                              Min(top, constraints.maxBottom - targetObj.height))
        finalDeltaX == constrainedLeft - targetObj.left
        finalDeltaY == constrainedTop - targetObj.top
        descendants == getAllDescendants(objects, id)
        moved == [i \in DOMAIN W.fabric |->
                     IF i = id
                     THEN [W.fabric[i] EXCEPT !.left = constrainedLeft,
                                              !.top = constrainedTop]
                     ELSE IF i \in descendants
                     THEN [W.fabric[i] EXCEPT !.left = objects[i].left + finalDeltaX,
                                              !.top = objects[i].top + finalDeltaY]
                     ELSE W.fabric[i]]
    IN  /\ probe.transformTarget = id
        /\ probe.currentOperation # "scaling"
        /\ ManipulationResult(
               IF ~W.mouseIsOverCanvas THEN [W EXCEPT !.fabric = dragged]
               ELSE [W EXCEPT !.fabric = moved, !.currentOperation = "moving"],
               id, TRUE, probe.gestureStart)
        /\ last' = Op("objectMoving", id, left, top, 0, 0, NULL)
        /\ UNCHANGED gestures

\* object:scaling: handleScalingStart, which calls startCustomResize the
\* first time.
handleScalingStart(id, handle) ==
    LET W == ManipulationWorld
        started == W.currentOperation = "scaling" /\ W.resizing.objectId # NULL
    IN  /\ probe.transformTarget = id
        /\ probe.currentOperation # "moving"
        /\ ManipulationResult(
               IF started THEN W
               ELSE [W EXCEPT !.currentOperation = "scaling",
                              !.resizing = [objectId |-> id, handle |-> handle,
                                            startDims |-> W.fabric[id]]],
               id, TRUE, probe.gestureStart)
        /\ last' = Op("objectScaling", id, 0, 0, 0, 0,
                      IF started THEN W.resizing.handle ELSE handle)
        /\ UNCHANGED gestures

\* mouse:move while scaling: handleMouseMove of useCanvasEvents calls
\* updateCustomResize and skips its hover and selection branches.
handleMouseMoveScaling(dx, dy) ==
    /\ probe.currentOperation = "scaling"
    /\ probe.transformTarget # NULL
    /\ ManipulationResult(updateCustomResize(ManipulationWorld, dx, dy),
                          probe.transformTarget, TRUE, probe.gestureStart)
    /\ last' = Op("mouseMove", probe.resizing.objectId, dx, dy, 0, 0, NULL)
    /\ UNCHANGED gestures

\* The button is released: Fabric ends the transform with object:modified
\* if it has changed the target, then mouse:up reaches handleMouseUp, which
\* ends a resize that is still marked as scaling.
handleMouseUp ==
    LET W == ManipulationWorld
        modified == IF probe.actionPerformed
                    THEN manipulationObjectModified(W, probe.transformTarget)
                    ELSE W
        ended == IF modified.currentOperation = "scaling"
                 THEN endCustomResize(modified) ELSE modified
    IN  /\ probe.transformTarget # NULL
        /\ ManipulationResult([ended EXCEPT !.currentOperation = NULL],
                              NULL, FALSE, probe.gestureStart)
        /\ last' = Op("mouseUp", probe.transformTarget, 0, 0, 0, 0,
                      probe.currentOperation)
        /\ UNCHANGED gestures

\* mouseleave: a move or a resize in progress is stopped by firing
\* object:modified and discarding the active object.
handleMouseLeave ==
    LET W == [ManipulationWorld EXCEPT !.mouseIsOverCanvas = FALSE]
        inProgress == W.currentOperation \in {"scaling", "moving"}
        fired == IF inProgress /\ probe.transformTarget # NULL
                 THEN manipulationObjectModified(W, probe.transformTarget)
                 ELSE W
    IN  /\ probe.mouseIsOverCanvas
        /\ ManipulationResult(
               IF inProgress THEN [fired EXCEPT !.currentOperation = NULL] ELSE W,
               IF inProgress THEN NULL ELSE probe.transformTarget,
               IF inProgress THEN FALSE ELSE probe.actionPerformed,
               probe.gestureStart)
        /\ last' = Op("mouseLeave", probe.transformTarget, 0, 0, 0, 0,
                      probe.currentOperation)
        /\ UNCHANGED gestures

handleMouseEnter ==
    /\ ~probe.mouseIsOverCanvas
    /\ ManipulationResult([ManipulationWorld EXCEPT !.mouseIsOverCanvas = TRUE],
                          probe.transformTarget, probe.actionPerformed,
                          probe.gestureStart)
    /\ last' = Op("mouseEnter", NULL, 0, 0, 0, 0, NULL)
    /\ UNCHANGED gestures

\* Where Fabric drags a target to, and how far the pointer is from where a
\* resize started.
DragPositions == {<<120, 70>>, <<700, 500>>}

ResizePointers == {<<-30, -20>>, <<400, 300>>}

\* The handles a resize is explored with.
Handles == {"tl", "br"}

InitManipulation ==
    /\ elements = <<>>
    /\ elementOrder = <<>>
    /\ selectedElementId = NULL
    /\ hoveredElementId = NULL
    /\ cache = <<>>
    /\ legacyElements = <<>>
    /\ objects = initialObjects
    /\ probe = [fabric |-> syncFabric(initialObjects), currentOperation |-> NULL,
                mouseIsOverCanvas |-> TRUE, transformTarget |-> NULL,
                actionPerformed |-> FALSE, resizing |-> NoResize,
                gestureStart |-> initialObjects]
    /\ gestures = 0
    /\ now = 0
    /\ last = NoOp

NextManipulation ==
    \/ \E id \in DOMAIN objects : pressReadyObject(id)
    \/ \E id \in DOMAIN objects, p \in DragPositions : handleObjectMoving(id, p[1], p[2])
    \/ \E id \in DOMAIN objects, handle \in Handles : handleScalingStart(id, handle)
    \/ \E p \in ResizePointers : handleMouseMoveScaling(p[1], p[2])
    \/ handleMouseUp
    \/ handleMouseLeave
    \/ handleMouseEnter

SpecManipulation == InitManipulation /\ [][NextManipulation]_vars

(***************************************************************************)
(* The pointer gestures of useCanvasEvents over useCanvasSelection.        *)
(* probe holds the refs of the two hooks: selectedObjectId, isDragReady,   *)
(* isSelecting, selectionStart, currentOperation, potentialDragStart and   *)
(* clickStart, and whether the pointer button is down.  e.target is the    *)
(* topmost rectangle that holds the pointer.  The moves and resizes taken  *)
(* here end with the rectangle displayed where it is stored, so that       *)
(* object:modified stores what is stored already; the rectangles that a    *)
(* gesture changes are the matter of SpecManipulation.                     *)
(***************************************************************************)
NoPoint == [set |-> FALSE, x |-> 0, y |-> 0, target |-> NULL]

APoint(x, y, target) == [set |-> TRUE, x |-> x, y |-> y, target |-> target]

DistanceSquared(p, x, y) == (x - p.x) * (x - p.x) + (y - p.y) * (y - p.y)

\* Fabric's e.target: the topmost object that holds the point, or none.
TargetAt(objs, x, y) ==
    LET hit == {id \in DOMAIN objs :
                   /\ x >= objs[id].left /\ x <= objs[id].left + objs[id].width
                   /\ y >= objs[id].top /\ y <= objs[id].top + objs[id].height}
    IN  IF hit = {} THEN NULL
        ELSE CHOOSE id \in hit : \A o \in hit : objs[o].parentId # id

\* The objects wholly inside the rectangle spanned by a point and (x, y).
objectsInSelection(objs, start, x, y) ==
    LET left == Min(start.x, x)
        top == Min(start.y, y)
        right == Max(start.x, x)
        bottom == Max(start.y, y)
    IN  {id \in DOMAIN objs :
            /\ objs[id].left >= left /\ objs[id].top >= top
            /\ objs[id].left + objs[id].width <= right
            /\ objs[id].top + objs[id].height <= bottom}

\* findMostParentObject: an object of the selection whose parent is not in
\* the selection.  The objects are nested one inside the other, so there is
\* at most one.
findMostParentObject(objs, selection) ==
    LET topLevelObjects == {id \in selection : objs[id].parentId \notin selection}
    IN  IF selection = {} THEN NULL ELSE CHOOSE id \in topLevelObjects : TRUE

\* selection.clearSelection(); selection.endSelection();
\* The mutation of endSelection that leaves the selection rectangle.
endSelectionKeepsStart(W) == [W EXCEPT !.isSelecting = FALSE]

\* endSelection.  selectionEnd is set and cleared with selectionStart, and
\* only selectionStart is kept.
endSelection(W) == [W EXCEPT !.isSelecting = FALSE, !.selectionStart = NoPoint]

clearAndEndSelection(W) ==
    [W EXCEPT !.selectedObjectId = NULL, !.isDragReady = FALSE,
              !.isSelecting = FALSE, !.selectionStart = NoPoint]

\* canvas.getObjects().forEach(obj => obj.set({lockMovementX: true,
\* lockMovementY: true})).
lockAll(W) == [W EXCEPT !.unlocked = {}]

\* ... selection.startSelection(x, y); currentOperation = "selecting"
startDragSelection(W, x, y) ==
    [lockAll(clearAndEndSelection(W)) EXCEPT !.isSelecting = TRUE,
                                    !.selectionStart = APoint(x, y, NULL),
                                    !.currentOperation = "selecting"]

\* The state of the gesture, read off the refs.
Phase(W) ==
    CASE W.currentOperation = "selecting" -> "BOX_SELECTING"
      [] W.currentOperation = "moving" -> "DRAGGING"
      [] W.currentOperation = "scaling" -> "RESIZING"
      [] OTHER -> IF W.selectedObjectId = NULL THEN "IDLE"
                  ELSE IF W.isDragReady THEN "READY" ELSE "ARMED"

GestureStep(W, op, x, y) ==
    /\ probe' = W
    /\ last' = Op(op, W.selectedObjectId, x, y, 0, 0, Phase(probe))
    /\ UNCHANGED <<elements, elementOrder, selectedElementId, hoveredElementId,
                   cache, legacyElements, objects, gestures, now>>

\* mouse:down at (x, y).
eventsMouseDown(x, y) ==
    LET target == TargetAt(objects, x, y)
        W == [probe EXCEPT !.buttonDown = TRUE,
                           !.potentialDragStart = APoint(x, y, target)]
    IN  /\ ~probe.buttonDown
        /\ GestureStep(
             IF target = NULL \/ ~isPointNearObjectEdge(x, y, objects[target])
             THEN startDragSelection(W, x, y)
             ELSE IF W.selectedObjectId # target
             THEN \* first click
                  [lockAll(W) EXCEPT !.selectedObjectId = target,
                                     !.isDragReady = FALSE,
                                     !.currentOperation = NULL]
             ELSE IF ~W.isDragReady
             THEN \* second click
                  [W EXCEPT !.isDragReady = TRUE, !.unlocked = @ \cup {target}]
             ELSE \* the drag-ready object again: unlocked if it was locked
                  [W EXCEPT !.unlocked = @ \cup {target},
                            !.clickStart = APoint(x, y, target),
                            !.currentOperation = NULL],
             "mouseDown", x, y)

\* mouse:move to (x, y).
eventsMouseMove(x, y) ==
    LET start == probe.potentialDragStart
        startsSelection ==
            /\ ~probe.isSelecting /\ start.set
            /\ probe.currentOperation \notin {"moving", "scaling"}
            /\ DistanceSquared(start, x, y) > 25
            /\ \/ start.target = NULL
               \/ probe.selectedObjectId # start.target
               \/ ~probe.isDragReady
    IN  /\ probe' = IF startsSelection
                     THEN [startDragSelection(probe, start.x, start.y)
                               EXCEPT !.potentialDragStart = NoPoint]
                     ELSE probe
        /\ last' = Op("mouseMove", probe'.selectedObjectId, x, y, 0, 0, Phase(probe))
        /\ UNCHANGED <<elements, elementOrder, selectedElementId, hoveredElementId,
                       cache, legacyElements, objects, gestures, now>>

\* object:moving, which Fabric fires while the pressed object, active and
\* unlocked, follows the pointer.
eventsObjectMoving ==
    /\ probe.buttonDown /\ probe.potentialDragStart.set
    /\ probe.selectedObjectId # NULL /\ probe.isDragReady
    /\ probe.potentialDragStart.target = probe.selectedObjectId
    /\ probe.selectedObjectId \in probe.unlocked
    /\ probe.currentOperation # "selecting"
    /\ GestureStep(IF probe.currentOperation = "scaling" THEN probe
                   ELSE [probe EXCEPT !.currentOperation = "moving"],
                   "objectMoving", 0, 0)

\* object:scaling, which Fabric fires while a control of the pressed
\* object follows the pointer.
eventsObjectScaling ==
    /\ probe.buttonDown /\ probe.potentialDragStart.set
    /\ probe.selectedObjectId # NULL /\ probe.isDragReady
    /\ probe.potentialDragStart.target = probe.selectedObjectId
    /\ probe.currentOperation \notin {"selecting", "moving"}
    /\ GestureStep([probe EXCEPT !.currentOperation = "scaling"],
                   "objectScaling", 0, 0)

\* The release of the button at (x, y): object:modified when an object
\* was moving, then mouse:up.  quick says that less than 300 ms have
\* passed since the press.
eventsMouseUp(x, y, quick) ==
    LET \* handleObjectModified and endCustomResize reset the operation
        W0 == [probe EXCEPT !.buttonDown = FALSE,
                            !.potentialDragStart = NoPoint,
                            !.currentOperation =
                                IF @ \in {"moving", "scaling"} THEN NULL ELSE @]
        \* ... and call setObjects: the sync effect then builds every
        \* rectangle anew, with lockMovementX and lockMovementY true
        rebuilt(W) == IF probe.currentOperation \in {"moving", "scaling"}
                      THEN lockAll(W) ELSE W
        deselects ==
            /\ W0.clickStart.set
            /\ W0.selectedObjectId # NULL /\ W0.isDragReady
            /\ DistanceSquared(W0.clickStart, x, y) < 25
            /\ quick
            /\ W0.clickStart.target = W0.selectedObjectId
        mostParentObject ==
            IF W0.selectionStart.set
            THEN findMostParentObject(objects,
                     objectsInSelection(objects, W0.selectionStart, x, y))
            ELSE NULL
        W1 == IF mostParentObject # NULL
              THEN [W0 EXCEPT !.selectedObjectId = mostParentObject,
                              !.isDragReady = TRUE,
                              !.unlocked = @ \cup {mostParentObject}]
              ELSE W0
    IN  /\ probe.buttonDown
        /\ GestureStep(
             IF deselects
             THEN rebuilt([W0 EXCEPT !.selectedObjectId = NULL,
                                     !.isDragReady = FALSE,
                                     !.clickStart = NoPoint])
             ELSE rebuilt([endSelection(W1) EXCEPT !.clickStart = NoPoint,
                                                   !.currentOperation = NULL]),
             "mouseUp", x, y)

\* The points the pointer visits: off every rectangle, on the edge zone of
\* the parent, 2 further, on the edge zones of the child and the grandchild,
\* inside the parent off every edge zone, and beyond the parent's corner.
GesturePoints == {<<50, 20>>, <<105, 55>>, <<107, 57>>, <<155, 105>>,
                  <<205, 155>>, <<400, 400>>, <<720, 580>>}

InitGesture ==
    /\ elements = <<>>
    /\ elementOrder = <<>>
    /\ selectedElementId = NULL
    /\ hoveredElementId = NULL
    /\ cache = <<>>
    /\ legacyElements = <<>>
    /\ objects = initialObjects
    /\ probe = [selectedObjectId |-> NULL, isDragReady |-> FALSE,
                isSelecting |-> FALSE, selectionStart |-> NoPoint,
                currentOperation |-> NULL, potentialDragStart |-> NoPoint,
                clickStart |-> NoPoint, buttonDown |-> FALSE,
                unlocked |-> {}]
    /\ gestures = 0
    /\ now = 0
    /\ last = NoOp

NextGesture ==
    \/ \E p \in GesturePoints : eventsMouseDown(p[1], p[2])
    \/ \E p \in GesturePoints : eventsMouseMove(p[1], p[2])
    \/ eventsObjectMoving
    \/ eventsObjectScaling
    \/ \E p \in GesturePoints, quick \in BOOLEAN : eventsMouseUp(p[1], p[2], quick)

SpecGesture == InitGesture /\ [][NextGesture]_vars

(***************************************************************************)
(* The rules that pick one element of a drag selection, applied to every   *)
(* forest of four objects created parents first and to every list of       *)
(* candidates taken from it in array order.  An object carries its         *)
(* parentId and, as the core stores them, its depth and its zIndex.        *)
(***************************************************************************)
RuleIds == <<"a", "b", "c", "d">>

\* getObjectDepth of canvasObjectUtils: the number of parent links above id.
RECURSIVE getObjectDepth(_, _)
getObjectDepth(objs, id) ==
    IF id \notin DOMAIN objs \/ objs[id].parentId = NULL THEN 0
    ELSE 1 + getObjectDepth(objs, objs[id].parentId)

\* findMostParentObject by depth: the first candidate of least depth.
RECURSIVE lowestDepthFrom(_, _, _, _)
lowestDepthFrom(objs, mostParentObject, lowestDepth, list) ==
    IF list = <<>> THEN mostParentObject
    ELSE LET depth == getObjectDepth(objs, Head(list))
         IN  IF lowestDepth < 0 \/ depth < lowestDepth
             THEN lowestDepthFrom(objs, Head(list), depth, Tail(list))
             ELSE lowestDepthFrom(objs, mostParentObject, lowestDepth, Tail(list))

\* lowestDepth starts at Infinity, written -1 here.
findMostParentByDepth(objs, list) == lowestDepthFrom(objs, NULL, -1, list)

\* findMostParentObject by parent: the first candidate whose parent is not
\* a candidate, and the first candidate when there is none.
findMostParentInList(objs, list) ==
    LET selectionIds == {list[k] : k \in 1..Len(list)}
        topLevelObjects ==
            SelectSeq(list, LAMBDA id : objs[id].parentId = NULL
                                        \/ objs[id].parentId \notin selectionIds)
    IN  IF list = <<>> THEN NULL
        ELSE IF topLevelObjects # <<>> THEN topLevelObjects[1]
        ELSE list[1]

\* The forest in which the k-th object has the parent parents[k], with the
\* depth and the zIndex createElement gives in that order of creation.
RECURSIVE ForestDepth(_, _)
ForestDepth(parents, k) ==
    IF parents[k] = 0 THEN 0 ELSE 1 + ForestDepth(parents, parents[k])

ForestOf(parents) ==
    [id \in {RuleIds[k] : k \in 1..Len(RuleIds)} |->
        LET k == CHOOSE n \in 1..Len(RuleIds) : RuleIds[n] = id
        IN  [parentId |-> IF parents[k] = 0 THEN NULL ELSE RuleIds[parents[k]],
             depth |-> ForestDepth(parents, k),
             zIndex |-> 1 + Cardinality({n \in 1..(k - 1) : parents[n] = parents[k]})]]

\* The root of the hierarchy an object is in.
RECURSIVE RootOf(_, _)
RootOf(objs, id) ==
    IF objs[id].parentId = NULL THEN id ELSE RootOf(objs, objs[id].parentId)

\* One application of the three rules to the candidates of probe.
TestRules ==
    /\ ~probe.tested
    /\ probe' = [probe EXCEPT
                    !.tested = TRUE,
                    !.byDepth = findMostParentByDepth(probe.objs, probe.list),
                    !.byParent = findMostParentInList(probe.objs, probe.list),
                    !.byCore = findTopLevelParent(probe.objs, probe.list)]
    /\ last' = Op("findMostParent", probe'.byParent, 0, 0, 0, 0, probe'.byDepth)
    /\ UNCHANGED <<coreVars, legacyElements, objects, gestures, now>>

InitRules ==
    /\ elements = <<>>
    /\ elementOrder = <<>>
    /\ selectedElementId = NULL
    /\ hoveredElementId = NULL
    /\ cache = <<>>
    /\ legacyElements = <<>>
    /\ objects = <<>>
    /\ \E parents \in [1..Len(RuleIds) -> 0..(Len(RuleIds) - 1)],
          chosen \in (SUBSET (1..Len(RuleIds))) \ {{}} :
          /\ \A k \in 1..Len(RuleIds) : parents[k] < k
          /\ probe = [objs |-> ForestOf(parents),
                      list |-> SelectSeq(RuleIds,
                                  LAMBDA id : \E k \in chosen : RuleIds[k] = id),
                      tested |-> FALSE, byDepth |-> NULL, byParent |-> NULL,
                      byCore |-> NULL]
    /\ gestures = 0
    /\ now = 0
    /\ last = NoOp

NextRules == TestRules

SpecRules == InitRules /\ [][NextRules]_vars

(***************************************************************************)
(* RenderManager over the core store.  probe holds AppState.dirtyElements, *)
(* RenderManager.renderPending, the number of animation frames that were   *)
(* requested and have not run, the rectangles of the Fabric canvas in the  *)
(* order they were added, and for each element the index of the rectangle  *)
(* its fabricObject property refers to.  gestures counts the creations and *)
(* the moves.                                                              *)
(***************************************************************************)
MaxRenderSteps == 3

\* The mutation of queueRender that requests a frame whether or not one is
\* pending.
queueRenderUnguarded(P) ==
    [P EXCEPT !.renderPending = TRUE, !.pendingFrames = @ + 1]

\* queueRender.  An operation calls it once for each dispatch that leaves
\* dirtyElements non-empty and once for its event; every call after the
\* first finds renderPending set.
queueRender(P) ==
    IF P.renderPending THEN P
    ELSE [P EXCEPT !.renderPending = TRUE, !.pendingFrames = @ + 1]

AsRenderedRect(element) ==
    [left |-> element.x, top |-> element.y,
     width |-> element.w, height |-> element.h]

\* removeFabricObject filters the canvas by data.elementId, a property no
\* rectangle of updateFabricObject has: nothing is removed.
removeFabricObject(R, elementId) ==
    [canvas |-> SelectSeq(R.canvas, LAMBDA obj : "data" \notin DOMAIN obj),
     fabricObject |-> R.fabricObject]

updateFabricObject(R, id, element) ==
    IF id \notin DOMAIN R.fabricObject
    THEN [canvas |-> Append(R.canvas, AsRenderedRect(element)),
          fabricObject |-> [i \in DOMAIN R.fabricObject \cup {id} |->
                               IF i = id THEN Len(R.canvas) + 1
                               ELSE R.fabricObject[i]]]
    ELSE [canvas |-> [R.canvas EXCEPT ![R.fabricObject[id]] =
                                         AsRenderedRect(element)],
          fabricObject |-> R.fabricObject]

\* render: the loop over the dirty ids.
RECURSIVE renderDirty(_, _, _)
renderDirty(R, els, ids) ==
    IF ids = <<>> THEN R
    ELSE LET elementId == Head(ids)
         IN  renderDirty(IF elementId \in DOMAIN els
                         THEN updateFabricObject(R, elementId, els[elementId])
                         ELSE removeFabricObject(R, elementId),
                         els, Tail(ids))

Renderer == [canvas |-> probe.canvas, fabricObject |-> probe.fabricObject]

\* createElement: MARK_DIRTY of the parent, CREATE_ELEMENT, and the
\* subscriber of the RenderManager queues a frame.
createAndQueue(id, parentId, props) ==
    /\ gestures < MaxRenderSteps
    /\ id \notin DOMAIN elements
    /\ parentId = NULL \/ parentId \in DOMAIN elements
    /\ LET S == createElementIn([elements |-> elements,
                                 elementOrder |-> elementOrder],
                                id, parentId, props)
       IN  /\ elements' = S.elements
           /\ elementOrder' = S.elementOrder
    /\ probe' = queueRender([probe EXCEPT
                    !.dirtyElements = @ \cup {id}
                        \cup (IF parentId = NULL THEN {} ELSE {parentId})])
    /\ gestures' = gestures + 1
    /\ last' = Op("create", id, props.x, props.y, 0, 0, id)
    /\ UNCHANGED <<selectedElementId, hoveredElementId, cache, legacyElements,
                   objects, now>>

\* deleteElement: for each deleted element MARK_DIRTY of its parent and
\* DELETE_ELEMENT, which takes the id out of dirtyElements; the listener of
\* 'element:deleted' queues a frame.  The fabricObject of a deleted element
\* goes with the element; its rectangle stays on the canvas.
deleteAndQueue(id) ==
    /\ id \in DOMAIN elements
    /\ LET T == deleteElementIn([elements |-> elements,
                                 elementOrder |-> elementOrder,
                                 selectedElementId |-> selectedElementId,
                                 hoveredElementId |-> hoveredElementId,
                                 log |-> <<>>], id)
           parent == getParent(elements, id)
       IN  /\ elements' = T.elements
           /\ elementOrder' = T.elementOrder
           /\ selectedElementId' = T.selectedElementId
           /\ hoveredElementId' = T.hoveredElementId
           /\ probe' = queueRender([probe EXCEPT
                           !.dirtyElements =
                               (@ \cup (IF parent = NULL THEN {} ELSE {parent}))
                                   \cap DOMAIN T.elements,
                           !.fabricObject =
                               [i \in DOMAIN @ \cap DOMAIN T.elements |-> @[i]]])
           /\ last' = Op("delete", id, T.log, 0, 0, 0, selectedElementId)
    /\ UNCHANGED <<cache, legacyElements, objects, gestures, now>>

\* moveElementWithChildren: MOVE_ELEMENT marks each moved element dirty.
moveAndQueue(elementId, deltaX, deltaY) ==
    /\ gestures < MaxRenderSteps
    /\ elementId \in DOMAIN elements
    /\ LET d == calculateMovementConstraints(elements, elementId, deltaX, deltaY)
           elementsToMove == <<elementId>> \o getDescendants(elements, elementId)
           moved == d.x # 0 \/ d.y # 0
       IN  /\ elements' = IF moved
                          THEN dispatchMoves(elements, elementsToMove, d.x, d.y)
                          ELSE elements
           /\ probe' = IF moved
                       THEN queueRender([probe EXCEPT
                                !.dirtyElements = @ \cup Range(elementsToMove)])
                       ELSE probe
           /\ last' = Op("move", elementId, deltaX, deltaY, d.x, d.y,
                         IF moved THEN "transform:move" ELSE NULL)
    /\ gestures' = gestures + 1
    /\ UNCHANGED <<elementOrder, selectedElementId, hoveredElementId, cache,
                   legacyElements, objects, now>>

\* The animation frame queueRender asked for: render, CLEAR_DIRTY, and
\* renderPending is false again.  Every dirty id is in the store, so the
\* ids are taken in the order of the store; the order only decides which
\* index a new rectangle gets.  The history holds the ids that were dirty.
animationFrame ==
    /\ probe.pendingFrames > 0
    /\ LET dirtyElements == SelectSeq(elementOrder,
                                      LAMBDA id : id \in probe.dirtyElements)
           R == renderDirty(Renderer, elements, dirtyElements)
       IN  probe' = [probe EXCEPT !.dirtyElements = {},
                                  !.renderPending = FALSE,
                                  !.pendingFrames = @ - 1,
                                  !.canvas = R.canvas,
                                  !.fabricObject = R.fabricObject]
    /\ last' = Op("render", NULL, probe.dirtyElements, 0, 0, 0, "render:complete")
    /\ UNCHANGED <<elements, elementOrder, selectedElementId, hoveredElementId,
                   cache, legacyElements, objects, gestures, now>>

RenderDeltas == {<<20, 40>>, <<-40, -20>>}

CreateAndQueue ==
    \E parentId \in {NULL, "blue-parent"}, props \in CreateRects :
        createAndQueue("new-rect", parentId, props)

DeleteAndQueue == \E id \in DOMAIN elements : deleteAndQueue(id)

MoveAndQueue ==
    \E id \in DOMAIN elements, d \in RenderDeltas : moveAndQueue(id, d[1], d[2])

\* The three rectangles of createInitialElements have been created and the
\* frame they queued has not run yet.
InitRender ==
    /\ elements = ThreeRectangles.elements
    /\ elementOrder = ThreeRectangles.elementOrder
    /\ selectedElementId = NULL
    /\ hoveredElementId = NULL
    /\ cache = <<>>
    /\ legacyElements = <<>>
    /\ objects = <<>>
    /\ probe = [dirtyElements |-> DOMAIN ThreeRectangles.elements,
                renderPending |-> TRUE,
                pendingFrames |-> 1,
                canvas |-> <<>>,
                fabricObject |-> <<>>]
    /\ gestures = 0
    /\ now = 0
    /\ last = NoOp

NextRender == CreateAndQueue \/ DeleteAndQueue \/ MoveAndQueue \/ animationFrame

SpecRender == InitRender /\ [][NextRender]_vars

(***************************************************************************)
(* The history of the StateManager: saveSnapshot, UNDO and REDO over the   *)
(* store, with the reducers that replace the objects they change           *)
(* (MOVE_ELEMENT, SELECT_ELEMENT, CLEAR_DIRTY).  probe holds               *)
(* AppState.dirtyElements and AppState.history; present is a sequence of   *)
(* no or one snapshot ({} before the first saveSnapshot).  gestures counts *)
(* the moves and the snapshots.                                            *)
(***************************************************************************)
MaxHistorySteps == 3

HISTORY_LIMIT == 50

\* { ...this.state } without its history, which UNDO and REDO replace.
Snapshot ==
    [elements |-> elements, elementOrder |-> elementOrder,
     selectedElementId |-> selectedElementId,
     hoveredElementId |-> hoveredElementId,
     dirtyElements |-> probe.dirtyElements]

\* The history after an UNDO or a REDO: what goes to the other side is
\* state.history.present, the snapshot saved or restored last.
historyOf(H, kind) ==
    IF kind = "UNDO"
    THEN [past |-> SubSeq(H.past, 1, Len(H.past) - 1),
          present |-> <<H.past[Len(H.past)]>>,
          future |-> H.present \o H.future]
    ELSE [past |-> H.past \o H.present,
          present |-> <<Head(H.future)>>,
          future |-> Tail(H.future)]

History == [past |-> probe.past, present |-> probe.present, future |-> probe.future]

\* The state becomes the snapshot S, with the history H.
restore(S, H) ==
    /\ elements' = S.elements
    /\ elementOrder' = S.elementOrder
    /\ selectedElementId' = S.selectedElementId
    /\ hoveredElementId' = S.hoveredElementId
    /\ probe' = [dirtyElements |-> S.dirtyElements,
                 past |-> H.past, present |-> H.present, future |-> H.future]

saveSnapshot ==
    /\ gestures < MaxHistorySteps
    /\ LET past == Append(probe.past, Snapshot)
       IN  probe' = [probe EXCEPT
                        !.past = IF Len(past) > HISTORY_LIMIT
                                 THEN SubSeq(past, Len(past) - HISTORY_LIMIT + 1,
                                             Len(past))
                                 ELSE past,
                        !.present = <<Snapshot>>,
                        !.future = <<>>]
    /\ gestures' = gestures + 1
    /\ last' = Op("saveSnapshot", NULL, 0, 0, 0, 0, NULL)
    /\ UNCHANGED <<elements, elementOrder, selectedElementId, hoveredElementId,
                   cache, legacyElements, objects, now>>

\* dispatch({ type: 'UNDO' }).  The history holds the elements and the
\* selection the UNDO found, and whether it changed the state.
UNDO ==
    /\ IF probe.past = <<>>
       THEN /\ UNCHANGED <<elements, elementOrder, selectedElementId,
                           hoveredElementId, probe>>
            /\ last' = Op("UNDO", NULL, elements, selectedElementId, 0, 0, NULL)
       ELSE /\ restore(probe.past[Len(probe.past)],
                       historyOf(History, "UNDO"))
            /\ last' = Op("UNDO", NULL, elements, selectedElementId, 0, 0,
                          "restored")
    /\ UNCHANGED <<cache, legacyElements, objects, gestures, now>>

REDO ==
    /\ IF probe.future = <<>>
       THEN /\ UNCHANGED <<elements, elementOrder, selectedElementId,
                           hoveredElementId, probe>>
            /\ last' = Op("REDO", NULL, elements, selectedElementId, 0, 0, NULL)
       ELSE /\ restore(Head(probe.future), historyOf(History, "REDO"))
            /\ last' = Op("REDO", NULL, elements, selectedElementId, 0, 0,
                          "restored")
    /\ UNCHANGED <<cache, legacyElements, objects, gestures, now>>

\* moveElementWithChildren, as far as the state goes.
moveInHistory(elementId, deltaX, deltaY) ==
    /\ gestures < MaxHistorySteps
    /\ LET d == calculateMovementConstraints(elements, elementId, deltaX, deltaY)
           elementsToMove == <<elementId>> \o getDescendants(elements, elementId)
           moved == d.x # 0 \/ d.y # 0
       IN  /\ elements' = IF moved
                          THEN dispatchMoves(elements, elementsToMove, d.x, d.y)
                          ELSE elements
           /\ probe' = IF moved
                       THEN [probe EXCEPT
                                !.dirtyElements = @ \cup Range(elementsToMove)]
                       ELSE probe
           /\ last' = Op("move", elementId, deltaX, deltaY, d.x, d.y,
                         IF moved THEN "transform:move" ELSE NULL)
    /\ gestures' = gestures + 1
    /\ UNCHANGED <<elementOrder, selectedElementId, hoveredElementId, cache,
                   legacyElements, objects, now>>

\* dispatch({ type: 'SELECT_ELEMENT', elementId }).
SELECT_ELEMENT(elementId) ==
    /\ selectedElementId # elementId
    /\ selectedElementId' = elementId
    /\ probe' = [probe EXCEPT
                    !.dirtyElements = @ \cup ({selectedElementId, elementId} \ {NULL})]
    /\ last' = Op("select", elementId, 0, 0, 0, 0, selectedElementId)
    /\ UNCHANGED <<elements, elementOrder, hoveredElementId, cache,
                   legacyElements, objects, gestures, now>>

\* dispatch({ type: 'CLEAR_DIRTY' }), at the end of a render pass.
CLEAR_DIRTY ==
    /\ probe.dirtyElements # {}
    /\ probe' = [probe EXCEPT !.dirtyElements = {}]
    /\ last' = Op("render", NULL, probe.dirtyElements, 0, 0, 0, "render:complete")
    /\ UNCHANGED <<elements, elementOrder, selectedElementId, hoveredElementId,
                   cache, legacyElements, objects, gestures, now>>

HistoryDeltas == {<<20, 40>>}

MoveInHistory ==
    \E id \in {"blue-parent", "purple-grandchild"}, d \in HistoryDeltas :
        moveInHistory(id, d[1], d[2])

SelectInHistory ==
    \E id \in {"orange-child", NULL} : SELECT_ELEMENT(id)

\* The three rectangles of createInitialElements have been drawn.
InitHistory ==
    /\ elements = ThreeRectangles.elements
    /\ elementOrder = ThreeRectangles.elementOrder
    /\ selectedElementId = NULL
    /\ hoveredElementId = NULL
    /\ cache = <<>>
    /\ legacyElements = <<>>
    /\ objects = <<>>
    /\ probe = [dirtyElements |-> {}, past |-> <<>>, present |-> <<>>,
                future |-> <<>>]
    /\ gestures = 0
    /\ now = 0
    /\ last = NoOp

NextHistory ==
    saveSnapshot \/ UNDO \/ REDO \/ MoveInHistory \/ SelectInHistory \/ CLEAR_DIRTY

SpecHistory == InitHistory /\ [][NextHistory]_vars

(***************************************************************************)
(* EventBus, for the listeners of one event.  probe holds the Set of the   *)
(* listeners in insertion order: "onceWrapper", the wrapper that once      *)
(* registers around a listener, and "emitter", a listener registered with  *)
(* on that emits the event again when it is called by an emit that is not  *)
(* nested.  behaviour says what the listener given to once does: it        *)
(* returns, it throws, or it emits the event the first time it is called.  *)
(* calls counts the invocations of that listener, emits the emits that are *)
(* not nested.                                                             *)
(***************************************************************************)
MaxEmits == 3

Behaviours == {"returns", "throws", "emits"}

\* this.listeners.get(event)?.delete(listener)
deleteListener(B, listener) ==
    [B EXCEPT !.listeners = SelectSeq(@, LAMBDA l : l # listener)]

RECURSIVE onceWrapper(_, _)

RECURSIVE forEachListener(_, _, _)

\* emit: Set.forEach visits the listeners in insertion order, and skips one
\* that was deleted before its turn.
emit(B, depth) == forEachListener(B, B.listeners, depth)

forEachListener(B, todo, depth) ==
    IF todo = <<>> THEN B
    ELSE LET listener == Head(todo)
             called ==
                 IF listener \notin Range(B.listeners) THEN B
                 ELSE IF listener = "onceWrapper" THEN onceWrapper(B, depth)
                 ELSE IF depth = 0
                 THEN emit([B EXCEPT !.emitterCalls = @ + 1], depth + 1)
                 ELSE [B EXCEPT !.emitterCalls = @ + 1]
         IN  forEachListener(called, Tail(todo), depth)

\* onceWrapper: listener(data), then the wrapper deletes itself.  When the
\* listener throws, emit catches the error and the wrapper stays.
onceWrapper(B, depth) ==
    LET B1 == [B EXCEPT !.calls = @ + 1]
    IN  CASE B.behaviour = "throws" -> B1
          [] B.behaviour = "emits" /\ B.calls = 0 ->
                 deleteListener(emit(B1, depth + 1), "onceWrapper")
          [] OTHER -> deleteListener(B1, "onceWrapper")

busStep(B, op, id) ==
    /\ probe' = B
    /\ last' = Op(op, id, 0, 0, 0, 0, NULL)
    /\ UNCHANGED <<elements, elementOrder, selectedElementId, hoveredElementId,
                   cache, legacyElements, objects, gestures, now>>

\* once(event, listener), called once.
once(behaviour) ==
    /\ probe.behaviour = NULL
    /\ busStep([probe EXCEPT !.behaviour = behaviour,
                             !.listeners = Append(@, "onceWrapper")],
               "once", behaviour)

\* on(event, emitter).
on ==
    /\ "emitter" \notin Range(probe.listeners)
    /\ busStep([probe EXCEPT !.listeners = Append(@, "emitter")], "on", "emitter")

\* The function on returned for the emitter.
unsubscribe ==
    /\ "emitter" \in Range(probe.listeners)
    /\ busStep(deleteListener(probe, "emitter"), "unsubscribe", "emitter")

\* emit(event, data), from outside every listener.
emitEvent ==
    /\ probe.emits < MaxEmits
    /\ busStep(emit([probe EXCEPT !.emits = @ + 1], 0), "emit", NULL)

InitBus ==
    /\ elements = <<>>
    /\ elementOrder = <<>>
    /\ selectedElementId = NULL
    /\ hoveredElementId = NULL
    /\ cache = <<>>
    /\ legacyElements = <<>>
    /\ objects = <<>>
    /\ probe = [listeners |-> <<>>, behaviour |-> NULL, calls |-> 0,
                emitterCalls |-> 0, emits |-> 0]
    /\ gestures = 0
    /\ now = 0
    /\ last = NoOp

NextBus == (\E b \in Behaviours : once(b)) \/ on \/ unsubscribe \/ emitEvent

SpecBus == InitBus /\ [][NextBus]_vars

(***************************************************************************)
(* The pure edge tests, applied to inputs drawn from bounded sets.         *)
(***************************************************************************)
ProbeRects == {Rect(0, 0, 100, 100), Rect(20, 30, 40, 25), Rect(0, 0, 15, 100),
               Rect(0, 0, 20, 100), Rect(5, 0, 90, 20)}

ProbeCoordinates == {-1, 0, 5, 9, 10, 11, 15, 30, 50, 60, 89, 90, 91, 95, 100, 101}

AsCanvasObject(r) == [left |-> r.x, top |-> r.y, width |-> r.w, height |-> r.h]

InitEdge ==
    /\ elements = <<>>
    /\ elementOrder = <<>>
    /\ selectedElementId = NULL
    /\ hoveredElementId = NULL
    /\ cache = <<>>
    /\ legacyElements = <<>>
    /\ objects = <<>>
    /\ \E r \in ProbeRects, x \in ProbeCoordinates, y \in ProbeCoordinates :
          probe = [tested |-> FALSE, x |-> x, y |-> y, element |-> r,
                   onEdge |-> FALSE, nearEdge |-> FALSE, inEdge |-> FALSE]
    /\ gestures = 0
    /\ now = 0
    /\ last = NoOp

\* The three edge tests are applied to the drawn point and rectangle.
TestEdge ==
    /\ ~probe.tested
    /\ probe' = [probe EXCEPT
                    !.tested = TRUE,
                    !.onEdge = calculateEdgeHit(probe.x, probe.y, probe.element),
                    !.nearEdge = isPointNearObjectEdge(probe.x, probe.y,
                                     AsCanvasObject(probe.element)),
                    !.inEdge = isPointInEdge(probe.x, probe.y, probe.element)]
    /\ last' = Op("isPointOnEdge", NULL, probe.x, probe.y, 0, 0, NULL)
    /\ UNCHANGED <<coreVars, legacyElements, objects, gestures, now>>

NextEdge == TestEdge

SpecEdge == InitEdge /\ [][NextEdge]_vars

(***************************************************************************)
(* unnamed/part_002: the component that keeps its rectangles in an array.  *)
(* objects is the array; probe holds selectedId, the two drag flags and    *)
(* dragStart (the origin while no drag is under way).                      *)
(***************************************************************************)
initialRectangles ==
    << [id |-> "blue-parent", parentId |-> NULL, x |-> 100, y |-> 100, w |-> 300, h |-> 200],
       [id |-> "orange-child", parentId |-> "blue-parent",
        x |-> 130, y |-> 130, w |-> 150, h |-> 100],
       [id |-> "purple-grandchild", parentId |-> "orange-child",
        x |-> 160, y |-> 160, w |-> 80, h |-> 60] >>

\* The last rectangle of the array with the point on its edge.
findRectangleAtPoint(rectangles, x, y) ==
    LET hits == {i \in DOMAIN rectangles : isPointInEdge(x, y, rectangles[i])}
    IN  IF hits = {} THEN NULL
        ELSE rectangles[CHOOSE i \in hits : \A j \in hits : j <= i].id

\* contained.reduce((top, current) => ...) from the accumulator top.
RECURSIVE reduceTopmost(_, _)
reduceTopmost(top, rest) ==
    IF rest = <<>> THEN top
    ELSE LET current == Head(rest)
         IN  reduceTopmost(IF current.parentId = NULL
                              \/ (top.parentId # NULL /\ current.parentId # NULL)
                           THEN current ELSE top,
                           Tail(rest))

\* The points the pointer is pressed at and moved to.
PointerPoints ==
    {<<90, 90>>, <<120, 120>>, <<125, 125>>, <<105, 150>>, <<135, 135>>, <<150, 150>>,
     <<165, 165>>, <<250, 225>>, <<290, 240>>, <<400, 300>>, <<410, 310>>}

monolithMouseDown(x, y) ==
    LET clicked == findRectangleAtPoint(objects, x, y)
    IN  /\ probe' = [selectedId |-> clicked, isDragging |-> clicked # NULL,
                     isDragSelecting |-> clicked = NULL, dragStart |-> <<x, y>>]
        /\ last' = Op("mouseDown", NULL, x, y, 0, 0, clicked)
        /\ UNCHANGED <<coreVars, legacyElements, objects, gestures, now>>

\* The drag selection branch of handleMouseMove.
monolithMouseMove(x, y) ==
    LET selectionRect == Rect(Min(probe.dragStart[1], x), Min(probe.dragStart[2], y),
                              Max(probe.dragStart[1], x) - Min(probe.dragStart[1], x),
                              Max(probe.dragStart[2], y) - Min(probe.dragStart[2], y))
        contained == SelectSeq(objects,
                        LAMBDA rect : isElementFullyContained(rect, selectionRect))
        topmost == IF contained = <<>> THEN probe.selectedId
                   ELSE reduceTopmost(Head(contained), Tail(contained)).id
    IN  /\ ~probe.isDragging /\ probe.isDragSelecting
        /\ probe' = [probe EXCEPT !.selectedId = topmost]
        /\ last' = Op("mouseMove", NULL, selectionRect.x, selectionRect.y,
                      selectionRect.w, selectionRect.h, topmost)
        /\ UNCHANGED <<coreVars, legacyElements, objects, gestures, now>>

monolithMouseUp ==
    /\ probe' = [probe EXCEPT !.isDragging = FALSE, !.isDragSelecting = FALSE,
                              !.dragStart = <<0, 0>>]
    /\ last' = Op("mouseUp", NULL, 0, 0, 0, 0, probe.selectedId)
    /\ UNCHANGED <<coreVars, legacyElements, objects, gestures, now>>

InitMonolith ==
    /\ elements = <<>>
    /\ elementOrder = <<>>
    /\ selectedElementId = NULL
    /\ hoveredElementId = NULL
    /\ cache = <<>>
    /\ legacyElements = <<>>
    /\ objects = initialRectangles
    /\ probe = [selectedId |-> NULL, isDragging |-> FALSE,
                isDragSelecting |-> FALSE, dragStart |-> <<0, 0>>]
    /\ gestures = 0
    /\ now = 0
    /\ last = NoOp

NextMonolith ==
    \/ \E q \in PointerPoints : monolithMouseDown(q[1], q[2])
    \/ \E q \in PointerPoints : monolithMouseMove(q[1], q[2])
    \/ monolithMouseUp

SpecMonolith == InitMonolith /\ [][NextMonolith]_vars

InitTransform == \E S \in {ThreeRectangles, RootAndChild} : InitCore(S)

NextTransform == Move \/ Resize

SpecTransform == InitTransform /\ [][NextTransform]_vars

(***************************************************************************)
(* Vocabulary of the properties.  These definitions read the state through *)
(* parentId only, never through the operators of the managers.             *)
(***************************************************************************)
\* The canvas of the host component: canvasSize of the initial AppState.
CANVAS_WIDTH == 800

CANVAS_HEIGHT == 600

\* Rectangle c lies inside rectangle p (edges may touch).
InsideRect(c, p) ==
    /\ c.x >= p.x
    /\ c.y >= p.y
    /\ c.x + c.w <= p.x + p.w
    /\ c.y + c.h <= p.y + p.h

CanvasRect == Rect(0, 0, CANVAS_WIDTH, CANVAS_HEIGHT)

\* Every element that has a parent lies inside it.
ChildrenContained(els) ==
    \A c \in DOMAIN els :
        (els[c].parentId # NULL /\ els[c].parentId \in DOMAIN els)
            => InsideRect(els[c], els[els[c].parentId])

RECURSIVE IsDescendantOf(_, _, _)
IsDescendantOf(els, e, a) ==
    /\ e \in DOMAIN els
    /\ els[e].parentId # NULL
    /\ \/ els[e].parentId = a
       \/ IsDescendantOf(els, els[e].parentId, a)

SamePosition(e) ==
    /\ elements'[e].x = elements[e].x
    /\ elements'[e].y = elements[e].y

(***************************************************************************)
(* Properties of the core TransformManager (SpecTransform).                *)
(***************************************************************************)
\* C2 (as stated): after any sequence of completed move and resize
\* operations that starts from a contained state, every child is contained
\* in its parent, at every level.
C2_ChildrenContained == ChildrenContained(elements)

C5_RootResizeWithinCanvas ==
    (last.op = "resize" /\ last.id \in DOMAIN elements
        /\ elements[last.id].parentId = NULL)
    => /\ elements[last.id].w <= CANVAS_WIDTH
       /\ elements[last.id].h <= CANVAS_HEIGHT

C7_RootMoveWithinCanvas ==
    (last.op = "move" /\ last.id \in DOMAIN elements
        /\ elements[last.id].parentId = NULL
        /\ elements[last.id].w <= CANVAS_WIDTH
        /\ elements[last.id].h <= CANVAS_HEIGHT)
    => InsideRect(elements[last.id], CanvasRect)

(***************************************************************************)
(* Properties of the legacy TransformManager (SpecLegacy).                 *)
(***************************************************************************)
\* C1 (as stated): a move keeps every element that has a parent and
\* stayWithinParent inside that parent: elements that are inside before a
\* move are inside after it.
C1_MoveKeepsChildrenInside ==
    [][\A id \in DOMAIN legacyElements, d \in LegacyDeltas :
          (moveElement(id, d[1], d[2]) /\ ChildrenContained(legacyElements))
          => ChildrenContained(legacyElements')]_vars

(***************************************************************************)
(* Properties of the edge test (SpecEdge) and of point queries (Spec).     *)
(***************************************************************************)
\* The edge zone as the specification defines it: the point is inside the
\* rectangle and within EDGE_THRESHOLD of at least one of its sides.
InEdgeZone(x, y, r) ==
    /\ x >= r.x /\ x <= r.x + r.w /\ y >= r.y /\ y <= r.y + r.h
    /\ \/ x - r.x <= EDGE_THRESHOLD
       \/ r.x + r.w - x <= EDGE_THRESHOLD
       \/ y - r.y <= EDGE_THRESHOLD
       \/ r.y + r.h - y <= EDGE_THRESHOLD

\* C8 (as stated): isPointOnEdge(x, y, element) is true exactly when (x, y)
\* is inside the element's rectangle and within EDGE_THRESHOLD of a side.
C8_OnEdgeIffWithinThreshold ==
    probe.tested => (probe.onEdge <=> InEdgeZone(probe.x, probe.y, probe.element))

\* Element a is painted after element b: deeper, or as deep with a higher
\* zIndex.
PaintedAfter(els, a, b) ==
    \/ els[a].depth > els[b].depth
    \/ els[a].depth = els[b].depth /\ els[a].zIndex > els[b].zIndex

\* C9 (as stated): a point query returns an element whose edge zone holds
\* the point and after which no other such element is painted; it returns
\* null when no element's edge zone holds the point.
C9_QueryResolvesToTopmost ==
    last.op \in {"selectAtPoint", "handleHover"}
    => LET hits == {e \in DOMAIN elements : InEdgeZone(last.ax, last.ay, elements[e])}
       IN  IF hits = {} THEN last.ret = NULL
           ELSE /\ last.ret \in hits
                /\ \A o \in hits : ~PaintedAfter(elements, o, last.ret)

\* C10 (as stated): after selectAtPoint with a match the match is the only
\* element whose selected flag is set, its id is the stored selection and the
\* returned value; without a match nothing is selected and null is returned.
C10_SelectAtPointSetsSelection ==
    last.op = "selectAtPoint"
    => /\ selectedElementId = last.ret
       /\ \A e \in DOMAIN elements : elements[e].selected <=> (e = last.ret)

(***************************************************************************)
(* Properties of the Fabric based component (SpecEditor).                  *)
(***************************************************************************)
\* Canvas object c lies inside canvas object p (edges may touch).
InsideObject(c, p) ==
    /\ c.left >= p.left
    /\ c.top >= p.top
    /\ c.left + c.width <= p.left + p.width
    /\ c.top + c.height <= p.top + p.height

\* C4 (as stated): whatever the handle and the candidate size, a resize
\* that starts with every direct child inside the element ends with every
\* direct child inside it.
C4_ResizeKeepsChildrenInside ==
    [][\A id \in DOMAIN objects :
          (objects'[id] # objects[id] /\ last'.op = "scaling" /\ last'.id = id
              /\ \A c \in DOMAIN objects :
                    objects[c].parentId = id => InsideObject(objects[c], objects[id]))
          => \A c \in DOMAIN objects :
                objects'[c].parentId = id => InsideObject(objects'[c], objects'[id])]_vars

(***************************************************************************)
(* Selection state.                                                        *)
(***************************************************************************)
\* The elements whose selected flag is set.
Flagged(els) == {i \in DOMAIN els : els[i].selected}

\* C11: after any sequence of selections, hovers, creations and deletions
\* at most one element has selected = TRUE, and an element that has it is
\* the element selectedElementId names.
C11_AtMostOneSelected ==
    /\ Cardinality(Flagged(elements)) <= 1
    /\ \A i \in Flagged(elements) : selectedElementId = i


(***************************************************************************)
(* Drag selection.                                                         *)
(***************************************************************************)
\* The rectangle of the last drag selection.
DraggedRect == Rect(last.ax, last.ay, last.rx, last.ry)

\* C12: the element a drag selection selects lies within the selection
\* rectangle, border included: an element with a corner outside the
\* rectangle is never selected.
C12_DragSelectsOnlyContained ==
    (last.op = "selectByDrag" /\ last.ret # NULL) =>
        /\ selectedElementId = last.ret
        /\ InsideRect(elements[last.ret], DraggedRect)

\* A drag selection has selected an element whose side lies on the border of
\* the rectangle, while another element with its top left corner in the
\* rectangle and its top right corner outside was passed over.
C12_Witness ==
    /\ last.op = "selectByDrag" /\ last.ret # NULL
    /\ elements[last.ret].x + elements[last.ret].w = DraggedRect.x + DraggedRect.w
    /\ \E i \in DOMAIN elements :
          /\ i # selectedElementId
          /\ InsideRect([elements[i] EXCEPT !.w = 0, !.h = 0], DraggedRect)
          /\ ~InsideRect([elements[i] EXCEPT !.h = 0], DraggedRect)


\* C13: the element a drag selection selects is a contained element whose
\* parent is not itself contained in the selection rectangle.
C13_DragSelectsSubtreeRoot ==
    (last.op = "mouseMove" /\ last.ret # NULL) =>
        \A i, j \in DOMAIN objects :
            (objects[i].id = last.ret /\ objects[j].id = objects[i].parentId) =>
                ~InsideRect(objects[j], DraggedRect)


\* The elements inside the dragged rectangle whose parent is not inside it,
\* in the iteration order of the store.
SubtreeRoots ==
    SelectSeq(elementOrder,
              LAMBDA i : /\ InsideRect(elements[i], DraggedRect)
                         /\ \/ getParent(elements, i) = NULL
                            \/ ~InsideRect(elements[getParent(elements, i)],
                                           DraggedRect))

\* C14: when the dragged rectangle holds more than one element whose parent is
\* not inside it, the drag selection selects the first of them in the
\* iteration order of the store.
C14_DragSelectsFirstRoot ==
    (last.op = "selectByDrag" /\ Len(SubtreeRoots) > 1) =>
        last.ret = Head(SubtreeRoots)


(***************************************************************************)
(* Hovering.                                                               *)
(***************************************************************************)
\* C15: a call of handleHover whose resolved id equals the hovered id it
\* finds emits no change notification, whether the point is on an edge zone
\* or not; so two calls in a row with the same coordinates emit at most one.
C15_HoverNotifiesOnChangeOnly ==
    (last.op = "handleHover" /\ last.rx > 0) => last.ret # last.id


\* C16: handleHover leaves selectedElementId and the selected flag of every
\* element as they were, at every point and in every state.
C16_HoverKeepsSelection ==
    [][\A q \in QueryPoints :
          handleHover(q[1], q[2]) =>
              /\ selectedElementId' = selectedElementId
              /\ DOMAIN elements' = DOMAIN elements
              /\ \A i \in DOMAIN elements :
                    elements'[i].selected = elements[i].selected]_vars

\* A hover has resolved to an element while another element is selected.
C16_Witness ==
    /\ last.op = "handleHover" /\ last.ret # NULL
    /\ hoveredElementId = last.ret
    /\ selectedElementId \notin {NULL, hoveredElementId}


\* The top of the z-order among the elements with the point on their edge
\* zone, as the edge detector answers in the current state.
TopOnEdge(x, y) ==
    getTopElementAtEdge(cache, x, y, elements,
                        Reverse(getElementsInRenderOrder(elements, elementOrder))).hit

Subtree(els, a) == {e \in DOMAIN els : e = a \/ IsDescendantOf(els, e, a)}

\* C18: deleteElement removes the element and all its descendants from the
\* store, and when the selected element was among them no element is
\* selected afterwards.
C18_DeletionCascades ==
    [][\A id \in DOMAIN elements :
          deleteElement(id) =>
              /\ DOMAIN elements' \cap Subtree(elements, id) = {}
              /\ selectedElementId \in Subtree(elements, id)
                     => selectedElementId' = NULL]_vars

\* blue-parent has been deleted while its grandchild was selected, and
\* neither its child nor its grandchild is left.
C18_Witness ==
    /\ last.op = "delete" /\ last.id = "blue-parent"
    /\ last.ret = "purple-grandchild"
    /\ selectedElementId = NULL
    /\ DOMAIN elements \cap {"blue-parent", "orange-child", "purple-grandchild"} = {}


\* The ids listed in childIds of the element p.
ListedChildren(els, p) == {els[p].childIds[k] : k \in DOMAIN els[p].childIds}

\* C19: after any sequence of createElement, deleteElement and
\* duplicateElement calls no element is its own ancestor, every parentId
\* is the id of an element, no childIds lists an id twice, and childIds of
\* p lists e exactly when the parentId of e is p.
C19_ForestConsistent ==
    /\ \A e \in DOMAIN elements :
          /\ ~IsDescendantOf(elements, e, e)
          /\ elements[e].parentId # NULL => elements[e].parentId \in DOMAIN elements
    /\ \A p \in DOMAIN elements :
          /\ \A j, k \in DOMAIN elements[p].childIds :
                 elements[p].childIds[j] = elements[p].childIds[k] => j = k
          /\ ListedChildren(elements, p) =
                 {e \in DOMAIN elements : elements[e].parentId = p}


\* C20: an element without a parent has depth 0 and every other element
\* has the depth of its parent plus 1, whatever props it was created with.
C20_DepthFollowsParent ==
    \A e \in DOMAIN elements :
        IF elements[e].parentId = NULL
        THEN elements[e].depth = 0
        ELSE /\ elements[e].parentId \in DOMAIN elements
             /\ elements[e].depth = elements[elements[e].parentId].depth + 1


(***************************************************************************)
(* Errors and calls with an unknown id.                                    *)
(***************************************************************************)
\* C21: createElement with a parent id that is not null and names no
\* element fails with ParentNotFound and adds no element to the store.
C21_MissingParentRejected ==
    [][\A id \in ElementIds, props \in LegacyCreateRects :
          legacyCreate(id, Missing, props) =>
              /\ last'.ret = "ParentNotFound"
              /\ legacyElements' = legacyElements]_vars


\* C22: moveElementWithChildren and resizeElement called with an id that
\* is not in the store change no state and emit no event.
C22_UnknownIdIsNoOp ==
    [][/\ \A d \in Deltas :
             moveElementWithChildren(Missing, d[1], d[2]) =>
                 (UNCHANGED coreVars /\ last'.ret = NULL)
       /\ \A s \in Sizes :
             resizeElement(Missing, s[1], s[2]) =>
                 (UNCHANGED coreVars /\ last'.ret = NULL)]_vars

\* A move with an unknown id has been made after an element was moved or
\* resized.
C22_Witness ==
    /\ last.op = "move" /\ last.id = Missing /\ last.ret = NULL
    /\ \E e \in DOMAIN elements : elements[e].version > 1


(***************************************************************************)
(* What a move and a resize leave alone.                                   *)
(***************************************************************************)
SameRect(a, b) == a.x = b.x /\ a.y = b.y /\ a.w = b.w /\ a.h = b.h

\* C23: moveElementWithChildren(id, dx, dy) leaves the rectangle of every
\* element that is neither id nor a descendant of id as it was.
C23_MoveLeavesOthers ==
    [][\A id \in DOMAIN elements, d \in Deltas :
          moveElementWithChildren(id, d[1], d[2]) =>
              \A e \in DOMAIN elements \ Subtree(elements, id) :
                  SameRect(elements'[e], elements[e])]_vars


\* C24: resizeElement(id, size) changes the width and the height of no
\* element but id.
C24_ResizeLeavesOtherSizes ==
    [][\A id \in DOMAIN elements, s \in Sizes :
          resizeElement(id, s[1], s[2]) =>
              \A e \in DOMAIN elements \ {id} :
                  /\ elements'[e].w = elements[e].w
                  /\ elements'[e].h = elements[e].h]_vars

\* An element with children has been given another size.
C24_Witness ==
    /\ last.op = "resize" /\ last.ret = "transform:resize"
    /\ elements[last.id].childIds # <<>>
    /\ elements[last.id].w = last.rx /\ elements[last.id].h = last.ry


(***************************************************************************)
(* The edge zone of small elements.                                        *)
(***************************************************************************)
\* C25: when the width or the height of an element is at most
\* 2 * EDGE_THRESHOLD, every point inside its rectangle is on its edge.
C25_SmallElementIsAllEdge ==
    (/\ probe.tested
     /\ \/ probe.element.w <= 2 * EDGE_THRESHOLD
        \/ probe.element.h <= 2 * EDGE_THRESHOLD
     /\ InsideRect([x |-> probe.x, y |-> probe.y, w |-> 0, h |-> 0], probe.element))
    => (probe.onEdge /\ probe.nearEdge /\ probe.inEdge)

\* The point in the middle of an element of width 2 * EDGE_THRESHOLD has
\* been tested.
C25_Witness ==
    /\ probe.tested /\ probe.onEdge
    /\ probe.element.w = 2 * EDGE_THRESHOLD
    /\ probe.x = probe.element.x + EDGE_THRESHOLD
    /\ probe.y = probe.element.y + 50


(***************************************************************************)
(* Gestures that the pointer leaves (SpecManipulation).                    *)
(***************************************************************************)
\* The last step was a mouseleave that stopped a move or a resize.
GestureAborted ==
    last.op = "mouseLeave" /\ last.ret \in {"moving", "scaling"}

\* C26: when the pointer leaves the canvas during a move or a resize,
\* nothing is committed: every stored rectangle is what it was when the
\* gesture began.
C26_LeaveCommitsNothing == GestureAborted => objects = probe.gestureStart

\* A resize that had changed the displayed size of its target has been
\* stopped by the pointer leaving.
C26_Witness ==
    /\ GestureAborted /\ last.ret = "scaling"
    /\ probe.fabric[last.id].width # objects[last.id].width
    /\ objects = probe.gestureStart


(***************************************************************************)
(* The order of a cascading deletion.                                      *)
(***************************************************************************)
\* The steps of the last deleteElement call, in order.
DeletionLog(op) == IF op.op = "delete" THEN op.ax ELSE <<>>

\* C27: within one deleteElement call, every child of a removed element
\* has been removed from the store, and its 'element:deleted' event emitted,
\* before the element itself is removed; the elements the call removes are
\* the ones that leave the store, and the element asked for goes last.
C27_ChildrenDeletedFirst ==
    [][\A id \in Targets :
          deleteElement(id) =>
              LET log == DeletionLog(last')
              IN  /\ {log[k][2] : k \in 1..Len(log)}
                        = DOMAIN elements \ DOMAIN elements'
                  /\ id \in DOMAIN elements
                        => log[Len(log)] = <<"element:deleted", id>>
                  /\ \A k \in 1..Len(log) :
                        log[k][1] = "removed"
                        => \A c \in DOMAIN elements :
                              elements[c].parentId = log[k][2]
                              => \E i, j \in 1..(k - 1) :
                                    /\ i < j
                                    /\ log[i] = <<"removed", c>>
                                    /\ log[j] = <<"element:deleted", c>>]_vars

\* blue-parent has been deleted with its child and its grandchild: six
\* steps, the grandchild's first.
C27_Witness ==
    /\ last.op = "delete" /\ last.id = "blue-parent"
    /\ Len(DeletionLog(last)) = 6
    /\ DeletionLog(last)[1] = <<"removed", "purple-grandchild">>
    /\ DeletionLog(last)[4] = <<"element:deleted", "orange-child">>

\* C29: after a move or a resize that the pointer leaving has stopped, every
\* rectangle is displayed where it is stored: the position and the size of
\* each Fabric rectangle, the target's and its descendants' included, are
\* those of its stored object.
C29_AbortDiscardsPreview ==
    GestureAborted
    => \A id \in DOMAIN objects : probe.fabric[id] = AsFabricRect(objects[id])


(***************************************************************************)
(* The cached edge test against the computed one.                          *)
(***************************************************************************)
\* C30: isPointOnEdge is pure: whatever creations, deletions and queries
\* came before, the answer it gives for a point and a stored element,
\* cached or not, is the edge computation on the element's current
\* rectangle.
C30_CachedAnswerIsFresh ==
    \A q \in QueryPoints, id \in DOMAIN elements :
        isPointOnEdge(cache, q[1], q[2], id, elements[id]).result
            = calculateEdgeHit(q[1], q[2], elements[id])


(***************************************************************************)
(* The states of the pointer gesture (SpecGesture).                        *)
(***************************************************************************)
\* The changes of state the gesture may make.
GestureTransitions ==
    {<<"IDLE", "ARMED">>, <<"ARMED", "READY">>,
     <<"READY", "DRAGGING">>, <<"READY", "RESIZING">>,
     <<"DRAGGING", "IDLE">>, <<"RESIZING", "IDLE">>,
     <<"IDLE", "BOX_SELECTING">>, <<"BOX_SELECTING", "IDLE">>}

\* C28: the gesture changes state along IDLE -> ARMED -> READY -> DRAGGING
\* or RESIZING -> IDLE and IDLE -> BOX_SELECTING -> IDLE only: an element
\* is made draggable by a second interaction on the armed element and by
\* nothing else, and a box selection starts from IDLE and ends in IDLE.
C28_GestureStateMachine ==
    [][\/ Phase(probe') = Phase(probe)
       \/ <<Phase(probe), Phase(probe')>> \in GestureTransitions]_vars


C32_SiblingZIndexDistinct ==
    \A a, b \in DOMAIN elements :
        a # b /\ elements[a].parentId = elements[b].parentId
        => elements[a].zIndex # elements[b].zIndex


(***************************************************************************)
(* The two selection rules against each other (SpecRules).                 *)
(***************************************************************************)
\* The candidates are all in one hierarchy.
SingleHierarchy ==
    \A k \in 1..Len(probe.list) :
        RootOf(probe.objs, probe.list[k]) = RootOf(probe.objs, probe.list[1])

\* C33: for candidates that lie in a single hierarchy the 'lowest depth'
\* rule, in both of its forms, selects the element the 'parent not among
\* the candidates' rule selects.
C33_RulesAgreeInOneHierarchy ==
    probe.tested /\ SingleHierarchy
    => /\ probe.byDepth = probe.byParent
       /\ probe.byCore = probe.byParent


(***************************************************************************)
(* The three edge tests against each other (SpecEdge).                     *)
(***************************************************************************)
\* C34: for every rectangle and every point, calculateEdgeHit,
\* isPointNearObjectEdge and isPointInEdge give the same answer, a point
\* at exactly EDGE_THRESHOLD from the nearest side included.
C34_EdgeTestsAgree ==
    probe.tested
    => /\ probe.onEdge = probe.nearEdge
       /\ probe.onEdge = probe.inEdge

(***************************************************************************)
(* The canvas of the RenderManager against the store.                      *)
(***************************************************************************)
RectanglesMatchStore ==
    /\ DOMAIN probe.fabricObject = DOMAIN elements
    /\ \A id \in DOMAIN elements :
          probe.canvas[probe.fabricObject[id]] = AsRenderedRect(elements[id])
    /\ \A k \in 1..Len(probe.canvas) :
          Cardinality({id \in DOMAIN elements : probe.fabricObject[id] = k}) = 1

\* C35: after a render pass the rectangles on the canvas correspond
\* one-to-one to the elements in the store, each with its stored position
\* and size, and no rectangle remains for an element that has been deleted.
C35_CanvasMatchesStoreAfterRender ==
    last.op = "render" => RectanglesMatchStore

\* C36: a dirty mark is cleared only by a render pass that draws the
\* element as the store holds it, and at most one frame is pending.
C36_DirtyClearedByRedraw ==
    [][/\ \A id \in probe.dirtyElements \ probe'.dirtyElements :
             /\ last'.op = "render"
             /\ id \in DOMAIN probe'.fabricObject
             /\ probe'.canvas[probe'.fabricObject[id]] =
                    AsRenderedRect(elements[id])
        /\ probe'.pendingFrames <= 1]_vars

(***************************************************************************)
(* The history of the StateManager.                                        *)
(***************************************************************************)
\* C39: a REDO that follows an UNDO which restored a snapshot gives back the
\* elements and the selection the UNDO found; an UNDO with an empty past
\* and a REDO with an empty future change nothing.
C39_UndoRedoRestores ==
    [][/\ ((last.op = "UNDO" /\ last.ret = "restored" /\ last'.op = "REDO")
            => (elements' = last.ax /\ selectedElementId' = last.ay))
        /\ ((last'.op = "UNDO" /\ probe.past = <<>>)
            => UNCHANGED <<coreVars, probe>>)
        /\ ((last'.op = "REDO" /\ probe.future = <<>>)
            => UNCHANGED <<coreVars, probe>>)]_vars

(***************************************************************************)
(* The hooks at the end of a gesture.                                      *)
(***************************************************************************)
\* A quick click on the selected object that moved it: the mouse-up that
\* deselects and returns early.
C37_Witness ==
    /\ last.op = "mouseUp"
    /\ last.ret = "DRAGGING"
    /\ probe.selectedObjectId = NULL

\* C37: after every mouse-up isSelecting is false, the selection start and
\* end are null and the current operation is null.
C37_NoGestureAfterMouseUp ==
    last.op = "mouseUp" =>
        /\ ~probe.isSelecting
        /\ ~probe.selectionStart.set
        /\ probe.currentOperation = NULL

\* C38: between pointer events every object whose movement is unlocked is
\* the selected object, with the selection drag-ready, and isDragReady is
\* not true while no object is selected.
C38_UnlockedIsSelectedAndReady ==
    ~probe.buttonDown =>
        /\ \A id \in probe.unlocked :
              id = probe.selectedObjectId /\ probe.isDragReady
        /\ (probe.isDragReady => probe.selectedObjectId # NULL)

(***************************************************************************)
(* EventBus.                                                               *)
(***************************************************************************)
\* C40: a listener registered with once is invoked at most once, whatever
\* is emitted, from outside or from inside a listener, and whether or not
\* the listener throws.
C40_OnceListenerCalledOnce == probe.calls <= 1

=============================================================================
